---- MODULE Spec2Model ----
(***************************************************************************)
(* A model of the simple CIDR calculator (package main): the CIDR          *)
(* validation and parsing of CIDRCalculator.ParseCIDR, the derivation of   *)
(* the NetworkInfo descriptor, and the subnet enumeration of               *)
(* CIDRCalculator.CalculateSubnets.                                        *)
(*                                                                         *)
(* Representation.  A Go string is a sequence of one-character strings.    *)
(* A net.IP or net.IPMask is a sequence of bytes (0..255), most            *)
(* significant byte first, of length 4 or 16.  A uint32 is a record        *)
(* [hi, lo] of two 16-bit halves, because the model checker's integers     *)
(* are narrower than 2^32.  The functions of Go's net and strconv          *)
(* packages that the calculator calls are modelled by what they do on the  *)
(* strings and byte slices the calculator hands them.                      *)
(***************************************************************************)
EXTENDS Integers, Sequences, FiniteSets, TLC

VARIABLES cidr, phase, err, examined, info, subnets, calls, helper,
          config, run, output, enumeration, intermediate

vars == <<cidr, phase, err, examined, info, subnets, calls, helper, config, run, output, enumeration, intermediate>>

(***************************************************************************)
(* Bounds of the model.                                                    *)
(***************************************************************************)
\* how many entries of SampleOctets the input addresses are built from
MaxSample == 4

(***************************************************************************)
(* Strings.                                                                *)
(***************************************************************************)
Digits == <<"0", "1", "2", "3", "4", "5", "6", "7", "8", "9">>

HexLetters == <<"a", "b", "c", "d", "e", "f", "A", "B", "C", "D", "E", "F">>

IsDigit(ch) == \E i \in 1..10 : Digits[i] = ch

DigitVal(ch) == (CHOOSE i \in 1..10 : Digits[i] = ch) - 1

IsHexLetter(ch) == \E i \in 1..12 : HexLetters[i] = ch

HexLetterVal(ch) == (((CHOOSE i \in 1..12 : HexLetters[i] = ch) - 1) % 6) + 10

Drop(s, n) == SubSeq(s, n + 1, Len(s))

Take(s, n) == SubSeq(s, 1, n)

\* strings.Contains(s, sep) for a one-character sep
Contains(s, ch) == \E i \in 1..Len(s) : s[i] = ch

\* 1-based index of the first ch in s, 0 when there is none
IndexByte(s, ch) ==
  IF Contains(s, ch)
  THEN CHOOSE i \in 1..Len(s) : s[i] = ch /\ \A j \in 1..(i - 1) : s[j] # ch
  ELSE 0

\* strings.Split(s, sep) for a one-character sep: always at least one part
RECURSIVE Split(_, _)
Split(s, ch) ==
  LET i == IndexByte(s, ch)
  IN  IF i = 0 THEN <<s>>
      ELSE <<Take(s, i - 1)>> \o Split(Drop(s, i), ch)

\* strconv.Itoa for n >= 0, as fmt's %d prints it
RECURSIVE Itoa(_)
Itoa(n) ==
  IF n < 10 THEN <<Digits[n + 1]>>
  ELSE Itoa(n \div 10) \o <<Digits[(n % 10) + 1]>>

RECURSIVE Join(_, _)
Join(parts, ch) ==
  IF Len(parts) = 0 THEN <<>>
  ELSE IF Len(parts) = 1 THEN parts[1]
  ELSE parts[1] \o <<ch>> \o Join(Tail(parts), ch)

(***************************************************************************)
(* Bytes.                                                                  *)
(***************************************************************************)
RECURSIVE Pow2(_)
Pow2(n) == IF n = 0 THEN 1 ELSE 2 * Pow2(n - 1)

\* b & c, b | c and ^b on one byte, bit by bit from the least significant
RECURSIVE AndBits(_, _, _)
AndBits(b, c, n) ==
  IF n = 0 THEN 0
  ELSE (b % 2) * (c % 2) + 2 * AndBits(b \div 2, c \div 2, n - 1)

RECURSIVE OrBits(_, _, _)
OrBits(b, c, n) ==
  IF n = 0 THEN 0
  ELSE (IF b % 2 = 1 \/ c % 2 = 1 THEN 1 ELSE 0)
       + 2 * OrBits(b \div 2, c \div 2, n - 1)

ByteAnd(b, c) == AndBits(b, c, 8)

ByteOr(b, c) == OrBits(b, c, 8)

ByteNot(b) == 255 - b

Zeros(n) == [i \in 1..n |-> 0]

Nil == <<>>

(***************************************************************************)
(* Go's net package, as far as the calculator uses it.                     *)
(***************************************************************************)
IPv4len == 4

IPv6len == 16

\* the parsers' overflow guard (net/parse.go: const big = 0xFFFFFF)
big == 16777215

v4InV6Prefix == <<0, 0, 0, 0, 0, 0, 0, 0, 0, 0, 255, 255>>

\* dtoi: the decimal number at the start of s, as [n, i, ok] with i the
\* number of characters consumed; not ok without a digit or at big
RECURSIVE dtoiLoop(_, _, _)
dtoiLoop(s, i, n) ==
  IF i < Len(s) /\ IsDigit(s[i + 1])
  THEN LET n2 == n * 10 + DigitVal(s[i + 1])
       IN  IF n2 >= big THEN [n |-> big, i |-> i, ok |-> FALSE]
           ELSE dtoiLoop(s, i + 1, n2)
  ELSE IF i = 0 THEN [n |-> 0, i |-> 0, ok |-> FALSE]
       ELSE [n |-> n, i |-> i, ok |-> TRUE]

dtoi(s) == dtoiLoop(s, 0, 0)

\* xtoi: the hexadecimal number at the start of s
RECURSIVE xtoiLoop(_, _, _)
xtoiLoop(s, i, n) ==
  IF i < Len(s) /\ (IsDigit(s[i + 1]) \/ IsHexLetter(s[i + 1]))
  THEN LET d  == IF IsDigit(s[i + 1]) THEN DigitVal(s[i + 1])
                 ELSE HexLetterVal(s[i + 1])
           n2 == n * 16 + d
       IN  IF n2 >= big THEN [n |-> 0, i |-> i, ok |-> FALSE]
           ELSE xtoiLoop(s, i + 1, n2)
  ELSE IF i = 0 THEN [n |-> 0, i |-> 0, ok |-> FALSE]
       ELSE [n |-> n, i |-> i, ok |-> TRUE]

xtoi(s) == xtoiLoop(s, 0, 0)

\* net.IPv4(a, b, c, d): the 16-byte form of an IPv4 address
IPv4(p) == v4InV6Prefix \o p

\* parseIPv4: four decimal fields 0..255 separated by single dots, no
\* leading zero in a field of two or more digits, nothing after them.
\* parseIPv4Field is one turn of its loop on the field at the head of s1,
\* r being dtoi(s1).
RECURSIVE parseIPv4Loop(_, _, _)
\* a faulty parseIPv4Field: a field above 255 is not refused but cut to a byte
parseIPv4Field_wrap(s1, i, p, r) ==
  IF ~r.ok THEN Nil
  ELSE IF r.i > 1 /\ s1[1] = "0" THEN Nil
  ELSE parseIPv4Loop(Drop(s1, r.i), i + 1, Append(p, r.n % 256))

parseIPv4Field(s1, i, p, r) ==
  IF ~r.ok \/ r.n > 255 THEN Nil
  ELSE IF r.i > 1 /\ s1[1] = "0" THEN Nil
  ELSE parseIPv4Loop(Drop(s1, r.i), i + 1, Append(p, r.n))

parseIPv4Loop(s, i, p) ==
  IF i = IPv4len
  THEN IF Len(s) # 0 THEN Nil ELSE IPv4(p)
  ELSE IF Len(s) = 0 THEN Nil
  ELSE IF i = 0 THEN parseIPv4Field(s, i, p, dtoi(s))
  ELSE IF s[1] # "." THEN Nil
  ELSE parseIPv4Field(Tail(s), i, p, dtoi(Tail(s)))

parseIPv4(s) == parseIPv4Loop(s, 0, <<>>)

\* the tail of parseIPv6: the whole string must be used, and an ellipsis
\* at byte position e is expanded to the missing zero bytes
parseIPv6Finish(s, i, ip, e) ==
  IF Len(s) # 0 THEN Nil
  ELSE IF i < IPv6len
  THEN IF e < 0 THEN Nil
       ELSE LET n == IPv6len - i
            IN  [k \in 1..IPv6len |->
                   IF k - 1 < e THEN ip[k]
                   ELSE IF k - 1 < e + n THEN 0
                   ELSE ip[k - n]]
  ELSE IF e >= 0 THEN Nil
  ELSE ip

\* the loop of parseIPv6: hexadecimal groups followed by colons, at most one
\* ellipsis, and possibly a trailing dotted IPv4 address.  parseIPv6Group is
\* one turn of the loop, r being xtoi(s); parseIPv6Tail places a trailing
\* IPv4 address ip4; parseIPv6Colon reads what follows a group.
RECURSIVE parseIPv6Loop(_, _, _, _)
parseIPv6Tail(i, ip, e, ip4) ==
  IF ip4 = Nil THEN Nil
  ELSE parseIPv6Finish(<<>>, i + IPv4len,
         [k \in 1..IPv6len |->
            IF k - 1 >= i /\ k - 1 < i + IPv4len
            THEN ip4[12 + (k - i)] ELSE ip[k]], e)

parseIPv6Colon(s2, i2, ip2, e) ==
  IF Len(s2) = 0 THEN parseIPv6Finish(s2, i2, ip2, e)
  ELSE IF s2[1] # ":" \/ Len(s2) = 1 THEN Nil
  ELSE IF s2[2] = ":"
  THEN IF e >= 0 THEN Nil
       ELSE IF Len(s2) = 2 THEN parseIPv6Finish(<<>>, i2, ip2, i2)
       ELSE parseIPv6Loop(Drop(s2, 2), i2, ip2, i2)
  ELSE parseIPv6Loop(Drop(s2, 1), i2, ip2, e)

parseIPv6Group(s, i, ip, e, r) ==
  IF ~r.ok \/ r.n > 65535 THEN Nil
  ELSE IF r.i < Len(s) /\ s[r.i + 1] = "."
  THEN IF e < 0 /\ i # IPv6len - IPv4len THEN Nil
       ELSE IF i + IPv4len > IPv6len THEN Nil
       ELSE parseIPv6Tail(i, ip, e, parseIPv4(s))
  ELSE parseIPv6Colon(Drop(s, r.i), i + 2,
         [ip EXCEPT ![i + 1] = r.n \div 256, ![i + 2] = r.n % 256], e)

parseIPv6Loop(s, i, ip, e) ==
  IF i >= IPv6len THEN parseIPv6Finish(s, i, ip, e)
  ELSE parseIPv6Group(s, i, ip, e, xtoi(s))

parseIPv6(s) ==
  IF Len(s) >= 2 /\ s[1] = ":" /\ s[2] = ":"
  THEN IF Len(s) = 2 THEN Zeros(IPv6len)
       ELSE parseIPv6Loop(Drop(s, 2), 0, Zeros(IPv6len), 0)
  ELSE parseIPv6Loop(s, 0, Zeros(IPv6len), -1)

\* net.ParseIP: the first '.' or ':' of s decides which parser reads it
RECURSIVE ParseIPFrom(_, _)
ParseIPFrom(s, i) ==
  IF i > Len(s) THEN Nil
  ELSE IF s[i] = "." THEN parseIPv4(s)
  ELSE IF s[i] = ":" THEN parseIPv6(s)
  ELSE ParseIPFrom(s, i + 1)

ParseIP(s) == ParseIPFrom(s, 1)

\* IP.To4: the 4-byte form of an IPv4 or IPv4-mapped address, else nil
To4(ip) ==
  IF Len(ip) = IPv4len THEN ip
  ELSE IF Len(ip) = IPv6len /\ Take(ip, 12) = v4InV6Prefix THEN Drop(ip, 12)
  ELSE Nil

\* net.CIDRMask(ones, bits): ones one-bits followed by zero-bits
CIDRMask(ones, bits) ==
  IF bits # 8 * IPv4len /\ bits # 8 * IPv6len THEN Nil
  ELSE IF ones < 0 \/ ones > bits THEN Nil
  ELSE [k \in 1..(bits \div 8) |->
          LET n == ones - 8 * (k - 1)
          IN  IF n >= 8 THEN 255
              ELSE IF n <= 0 THEN 0
              ELSE ByteNot(255 \div Pow2(n))]

\* IP.Mask(mask): a 16-byte mask of twelve 0xff bytes is cut to its last four
\* bytes for a 4-byte address, an IPv4-in-IPv6 address is cut to its last
\* four bytes for a 4-byte mask, and then the lengths must agree
maskBytes(ip, mask) ==
  IF Len(ip) # Len(mask) THEN Nil
  ELSE [k \in 1..Len(ip) |-> ByteAnd(ip[k], mask[k])]

MaskIP(ip, mask) ==
  IF Len(mask) = IPv6len /\ Len(ip) = IPv4len
     /\ Take(mask, 12) = [k \in 1..12 |-> 255]
  THEN maskBytes(ip, Drop(mask, 12))
  ELSE IF Len(mask) = IPv4len /\ Len(ip) = IPv6len
          /\ Take(ip, 12) = v4InV6Prefix
  THEN maskBytes(Drop(ip, 12), mask)
  ELSE maskBytes(ip, mask)

\* IPMask.Size: the number of leading one-bits of a canonical mask (the
\* first result of Size; 0 for a mask that is not canonical)
RECURSIVE LeadingOnes(_)
LeadingOnes(b) == IF b < 128 THEN 0 ELSE 1 + LeadingOnes((2 * b) % 256)

RECURSIVE simpleMaskLength(_, _)
simpleMaskLength(mask, k) ==
  IF k > Len(mask) THEN 0
  ELSE IF mask[k] = 255 THEN 8 + simpleMaskLength(mask, k + 1)
  ELSE IF mask[k] # 255 - (Pow2(8 - LeadingOnes(mask[k])) - 1) THEN -1000
  ELSE IF \E j \in (k + 1)..Len(mask) : mask[j] # 0 THEN -1000
  ELSE LeadingOnes(mask[k])

MaskSize(mask) ==
  LET n == simpleMaskLength(mask, 1) IN IF n < 0 THEN 0 ELSE n

\* net.ParseCIDR(s): [ok, ip, netIP, mask].  The address before the first
\* '/' is read as IPv4 and, failing that, as IPv6 (iplen bytes); the text
\* after it must be a decimal number of at most 8 * iplen.
badCIDR == [ok |-> FALSE, ip |-> Nil, netIP |-> Nil, mask |-> Nil]

parsedCIDR(ip, m) == [ok |-> TRUE, ip |-> ip, netIP |-> MaskIP(ip, m), mask |-> m]

parseCIDRMask(ip, iplen, mask, r) ==
  IF ip = Nil \/ ~r.ok \/ r.i # Len(mask) \/ r.n < 0 \/ r.n > 8 * iplen
  THEN badCIDR
  ELSE parsedCIDR(ip, CIDRMask(r.n, 8 * iplen))

parseCIDRAddr(addr, mask, ip4) ==
  IF ip4 = Nil THEN parseCIDRMask(parseIPv6(addr), IPv6len, mask, dtoi(mask))
  ELSE parseCIDRMask(ip4, IPv4len, mask, dtoi(mask))

parseCIDRAt(s, i) ==
  IF i = 0 THEN badCIDR
  ELSE parseCIDRAddr(Take(s, i - 1), Drop(s, i), parseIPv4(Take(s, i - 1)))

netParseCIDR(s) == parseCIDRAt(s, IndexByte(s, "/"))

(***************************************************************************)
(* strconv.Atoi: an optional sign and decimal digits, an error when there  *)
(* is no digit, a character that is no digit, or a value outside the       *)
(* range of int (64 bits).  The result is [ok, n, dec]: n is the value,    *)
(* kept at AtoiCap beyond AtoiCap (the calculator only compares it with 0  *)
(* and 32), and dec the decimal digits of the value as %d prints them.     *)
(***************************************************************************)
AtoiCap == 1000000

RECURSIVE AtoiDigits(_, _)
AtoiDigits(s, n) ==
  IF Len(s) = 0 THEN n
  ELSE AtoiDigits(Tail(s), IF n * 10 + DigitVal(s[1]) > AtoiCap THEN AtoiCap
                           ELSE n * 10 + DigitVal(s[1]))

\* the digits without their leading zeros, one digit at least
RECURSIVE stripZeros(_)
stripZeros(s) ==
  IF Len(s) > 1 /\ s[1] = "0" THEN stripZeros(Tail(s)) ELSE s

\* 1<<63 - 1 and 1<<63, the largest magnitudes of a positive and of a
\* negative int
maxIntDigits == <<"9", "2", "2", "3", "3", "7", "2", "0", "3", "6", "8", "5", "4", "7", "7", "5", "8", "0", "7">>

minIntDigits == <<"9", "2", "2", "3", "3", "7", "2", "0", "3", "6", "8", "5", "4", "7", "7", "5", "8", "0", "8">>

\* a <= b for two numbers of as many digits
RECURSIVE digitsLeq(_, _)
digitsLeq(a, b) ==
  IF Len(a) = 0 THEN TRUE
  ELSE IF a[1] # b[1] THEN DigitVal(a[1]) < DigitVal(b[1])
  ELSE digitsLeq(Tail(a), Tail(b))

fitsInt(neg, mag) ==
  \/ Len(mag) < Len(maxIntDigits)
  \/ /\ Len(mag) = Len(maxIntDigits)
     /\ digitsLeq(mag, IF neg THEN minIntDigits ELSE maxIntDigits)

atoiError == [ok |-> FALSE, n |-> 0, dec |-> <<"0">>]

\* the value of the sign neg and the magnitude mag (digits without leading
\* zeros)
atoiValue(neg, mag) ==
  IF ~fitsInt(neg, mag) THEN atoiError
  ELSE [ok  |-> TRUE,
        n   |-> IF neg THEN 0 - AtoiDigits(mag, 0) ELSE AtoiDigits(mag, 0),
        dec |-> IF neg /\ mag # <<"0">> THEN <<"-">> \o mag ELSE mag]

\* a faulty Atoi: the digits are read up to the first character that is no
\* digit, and what follows them is ignored
atoiBody_leadingDigits(neg, body) ==
  IF Len(body) = 0 \/ ~IsDigit(body[1]) THEN atoiError
  ELSE atoiValue(neg, stripZeros(Take(body, dtoi(body).i)))

atoiBody(neg, body) ==
  IF Len(body) = 0 THEN atoiError
  ELSE IF \E k \in 1..Len(body) : ~IsDigit(body[k]) THEN atoiError
  ELSE atoiValue(neg, stripZeros(body))

Atoi(s) ==
  IF Len(s) > 0 /\ (s[1] = "-" \/ s[1] = "+")
  THEN atoiBody(s[1] = "-", Tail(s))
  ELSE atoiBody(FALSE, s)

(***************************************************************************)
(* uint32 values, as two 16-bit halves.                                    *)
(***************************************************************************)
Half == 65536

U32(n) == [hi |-> (n \div Half) % Half, lo |-> n % Half]

U32Add(x, y) ==
  [hi |-> (x.hi + y.hi + ((x.lo + y.lo) \div Half)) % Half,
   lo |-> (x.lo + y.lo) % Half]

U32Sub(x, y) ==
  LET borrow == IF x.lo < y.lo THEN 1 ELSE 0
  IN  [hi |-> (x.hi - y.hi - borrow + 2 * Half) % Half,
       lo |-> (x.lo - y.lo + Half) % Half]

\* x << n in 32 bits: the bits shifted past bit 31 are lost, and a count of
\* 32 or more leaves 0
RECURSIVE U32Shl(_, _)
U32Shl(x, n) ==
  IF n = 0 THEN x
  ELSE U32Shl([hi |-> (2 * x.hi + ((2 * x.lo) \div Half)) % Half,
               lo |-> (2 * x.lo) % Half], n - 1)

U32Gt(x, y) == x.hi > y.hi \/ (x.hi = y.hi /\ x.lo > y.lo)

(***************************************************************************)
(* The calculator's helpers.                                               *)
(***************************************************************************)
\* a faulty calculateWildcardMask: the arithmetic negation of each byte (-b)
\* in place of its complement (^b)
calculateWildcardMask_negated(subnetMask) ==
  [i \in 1..Len(subnetMask) |-> (256 - subnetMask[i]) % 256]

\* calculateWildcardMask: every byte of the subnet mask complemented
calculateWildcardMask(subnetMask) ==
  [i \in 1..Len(subnetMask) |-> ByteNot(subnetMask[i])]

\* a faulty calculateBroadcastAddress: AND in place of OR
calculateBroadcastAddress_and(networkID, wildcardMask) ==
  [i \in 1..Len(networkID) |-> ByteAnd(networkID[i], wildcardMask[i])]

\* calculateBroadcastAddress: network id OR wildcard mask, byte by byte
calculateBroadcastAddress(networkID, wildcardMask) ==
  [i \in 1..Len(networkID) |-> ByteOr(networkID[i], wildcardMask[i])]

\* a faulty incrementIP: the last byte is incremented and no carry moves on
incrementLoop_noCarry(result, i) ==
  IF i < 1 THEN result ELSE [result EXCEPT ![i] = (@ + 1) % 256]

\* incrementIP: add one to the last byte and carry while a byte wraps to 0
RECURSIVE incrementLoop(_, _)
incrementLoop(result, i) ==
  IF i < 1 THEN result
  ELSE LET r == [result EXCEPT ![i] = (@ + 1) % 256]
       IN  IF r[i] # 0 THEN r ELSE incrementLoop(r, i - 1)

incrementIP(ip) == incrementLoop(ip, Len(ip))

\* decrementIP: subtract one from the last non-zero byte, the zero bytes
\* after it become 255
\* a faulty decrementIP: a zero byte becomes 255 and no borrow moves on
decrementLoop_noBorrow(result, i) ==
  IF i < 1 THEN result ELSE [result EXCEPT ![i] = (@ + 255) % 256]

RECURSIVE decrementLoop(_, _)
decrementLoop(result, i) ==
  IF i < 1 THEN result
  ELSE IF result[i] # 0 THEN [result EXCEPT ![i] = @ - 1]
  ELSE decrementLoop([result EXCEPT ![i] = 255], i - 1)

decrementIP(ip) == decrementLoop(ip, Len(ip))

\* a faulty addToIP: the value added to the last byte only
addToIP_lastByteOnly(ip, value) ==
  [ip EXCEPT ![4] = (@ + value.lo) % 256]

\* addToIP: the first four bytes as a uint32, plus value, written back
\* a faulty conversion to uint32: the first byte is left out of the sum
ipToUint32_noFirstByte(ip) == [hi |-> ip[2], lo |-> ip[3] * 256 + ip[4]]

ipToUint32(ip) == [hi |-> ip[1] * 256 + ip[2], lo |-> ip[3] * 256 + ip[4]]

\* a faulty conversion back: the bytes are written least significant first
uint32ToIP_reversed(ip, sum) ==
  [ip EXCEPT ![4] = sum.hi \div 256, ![3] = sum.hi % 256,
             ![2] = sum.lo \div 256, ![1] = sum.lo % 256]

uint32ToIP(ip, sum) ==
  [ip EXCEPT ![1] = sum.hi \div 256, ![2] = sum.hi % 256,
             ![3] = sum.lo \div 256, ![4] = sum.lo % 256]

addToIP(ip, value) == uint32ToIP(ip, U32Add(ipToUint32(ip), value))

(***************************************************************************)
(* Memory.  A heap is a sequence of byte arrays and a slice is the index   *)
(* of its array, so that two slices of one array see each other's writes.  *)
(* The helpers start with make and copy and write to the new slice only.   *)
(***************************************************************************)
\* result := make(net.IP, n) and the writes to result that leave bytes in it
newSlice(h, bytes) == [heap |-> Append(h, bytes), ref |-> Len(h) + 1]

incrementIPAt(h, ip) == newSlice(h, incrementIP(h[ip]))

decrementIPAt(h, ip) == newSlice(h, decrementIP(h[ip]))

\* addToIP writing to the array of its argument, without make and copy
addToIPAt_inPlace(h, ip, value) ==
  [heap |-> [h EXCEPT ![ip] = addToIP(h[ip], value)], ref |-> ip]

addToIPAt(h, ip, value) == newSlice(h, addToIP(h[ip], value))

\* a faulty host count: the shift count taken modulo 32, as a hardware
\* shift instruction takes it, so that 1 << 32 is 1
hostCount_shiftMod32(hostBits) ==
  U32Sub(U32Shl(U32(1), hostBits % 32), U32(2))

\* the shift in a type of 31 bits
hostShift_31bits(hostBits) ==
  [hi |-> U32Shl(U32(1), hostBits).hi % 32768, lo |-> U32Shl(U32(1), hostBits).lo]

\* 1 << uint(hostBits) in uint32, the type of TotalHosts
hostShift(hostBits) == U32Shl(U32(1), hostBits)

\* the host count of the default branch: (1 << hostBits) - 2 in uint32
hostCount(hostBits) == U32Sub(hostShift(hostBits), U32(2))

\* a faulty calculateUsableRange: no branch for /31
calculateUsableRange_no31(i) ==
  IF i.PrefixLength = 32
  THEN [i EXCEPT !.FirstUsableIP = i.NetworkID,
                 !.LastUsableIP  = i.NetworkID,
                 !.TotalHosts    = U32(1)]
  ELSE [i EXCEPT !.FirstUsableIP = incrementIP(i.NetworkID),
                 !.LastUsableIP  = decrementIP(i.BroadcastAddr),
                 !.TotalHosts    = U32Sub(U32Shl(U32(1), 32 - i.PrefixLength),
                                          U32(2))]

\* calculateUsableRange: the three branches on the prefix length
calculateUsableRange(i) ==
  IF i.PrefixLength = 32
  THEN [i EXCEPT !.FirstUsableIP = i.NetworkID,
                 !.LastUsableIP  = i.NetworkID,
                 !.TotalHosts    = U32(1)]
  ELSE IF i.PrefixLength = 31
  THEN [i EXCEPT !.FirstUsableIP = i.NetworkID,
                 !.LastUsableIP  = i.BroadcastAddr,
                 !.TotalHosts    = U32(2)]
  ELSE [i EXCEPT !.FirstUsableIP = incrementIP(i.NetworkID),
                 !.LastUsableIP  = decrementIP(i.BroadcastAddr),
                 !.TotalHosts    = hostCount(32 - i.PrefixLength)]

\* no shift computed: no descriptor, or one of the /32 and /31 branches
NoShift == [computed |-> FALSE, value |-> U32(0)]

\* the value of 1 << hostBits that calculateUsableRange passes through
usableRangeShift(i) ==
  IF i.isNil \/ i.PrefixLength >= 31 THEN NoShift
  ELSE [computed |-> TRUE, value |-> hostShift(32 - i.PrefixLength)]

\* the two calls on the arrays of NetworkID (1) and BroadcastAddr (2),
\* incremented being the memory after the first; after: the bytes of the
\* argument when the call has returned
rangeCalls(i, incremented) ==
  <<[fn |-> "incrementIP", ip |-> i.NetworkID, after |-> incremented.heap[1]],
    [fn |-> "decrementIP", ip |-> i.BroadcastAddr,
     after |-> decrementIPAt(incremented.heap, 2).heap[2]]>>

\* the calls as they would be without the cases for prefix 32 and 31
usableRangeCalls_everyPrefix(i) ==
  rangeCalls(i, incrementIPAt(<<i.NetworkID, i.BroadcastAddr>>, 1))

\* the calls of incrementIP and decrementIP that calculateUsableRange makes
usableRangeCalls(i) ==
  IF i.PrefixLength = 32 \/ i.PrefixLength = 31 THEN <<>>
  ELSE rangeCalls(i, incrementIPAt(<<i.NetworkID, i.BroadcastAddr>>, 1))

(***************************************************************************)
(* Errors: the message of the fmt.Errorf call, and the text it formats     *)
(* into it.                                                                *)
(***************************************************************************)
ErrEmpty == "CIDR notation cannot be empty"

ErrFormat == "invalid CIDR notation. Expected format: x.x.x.x/y (e.g., 192.168.1.0/24)"

ErrIP == "invalid IP address format: %s"

ErrIPv6Addr == "IPv6 is not supported, please provide an IPv4 address"

ErrPrefix == "invalid prefix length: %s (must be a number between 0 and 32)"

ErrRange == "prefix length must be between 0 and 32, got: %d"

ErrParse == "invalid CIDR notation: %v"

ErrIPv6CIDR == "IPv6 is not supported, please provide an IPv4 CIDR"

NoErr == [msg |-> "", arg |-> <<>>]

Error(m, a) == [msg |-> m, arg |-> a]

FormatInt(n) == IF n < 0 THEN <<"-">> \o Itoa(0 - n) ELSE Itoa(n)

(***************************************************************************)
(* validateCIDRFormat: the checks in the order the code makes them.        *)
(* The result is [err, examined]: the error (NoErr when the input passes)  *)
(* and the checks that were evaluated on the way.                          *)
(***************************************************************************)
\* a faulty validatePrefix: the upper bound of the range check is exclusive
validatePrefix_exclusive(prefixStr, prefix) ==
  IF ~prefix.ok
  THEN [err |-> Error(ErrPrefix, prefixStr),
        examined |-> <<"empty", "slash", "parts", "ip", "ipv4", "prefix">>]
  ELSE IF prefix.n < 0 \/ prefix.n >= 32
  THEN [err |-> Error(ErrRange, prefix.dec),
        examined |-> <<"empty", "slash", "parts", "ip", "ipv4", "prefix",
                       "range">>]
  ELSE [err |-> NoErr,
        examined |-> <<"empty", "slash", "parts", "ip", "ipv4", "prefix",
                       "range">>]

\* a faulty validatePrefix: the range check without its lower bound
validatePrefix_upperOnly(prefixStr, prefix) ==
  IF ~prefix.ok
  THEN [err |-> Error(ErrPrefix, prefixStr),
        examined |-> <<"empty", "slash", "parts", "ip", "ipv4", "prefix">>]
  ELSE IF prefix.n > 32
  THEN [err |-> Error(ErrRange, prefix.dec),
        examined |-> <<"empty", "slash", "parts", "ip", "ipv4", "prefix",
                       "range">>]
  ELSE [err |-> NoErr,
        examined |-> <<"empty", "slash", "parts", "ip", "ipv4", "prefix",
                       "range">>]

\* the checks on the prefix substring, prefix being Atoi(prefixStr)
validatePrefix(prefixStr, prefix) ==
  IF ~prefix.ok
  THEN [err |-> Error(ErrPrefix, prefixStr),
        examined |-> <<"empty", "slash", "parts", "ip", "ipv4", "prefix">>]
  ELSE IF prefix.n < 0 \/ prefix.n > 32
  THEN [err |-> Error(ErrRange, prefix.dec),
        examined |-> <<"empty", "slash", "parts", "ip", "ipv4", "prefix",
                       "range">>]
  ELSE [err |-> NoErr,
        examined |-> <<"empty", "slash", "parts", "ip", "ipv4", "prefix",
                       "range">>]

\* the checks on the address substring, ip being net.ParseIP(ipStr), and
\* then those on the prefix substring
validateIP(ipStr, prefixStr, ip) ==
  IF ip = Nil
  THEN [err |-> Error(ErrIP, ipStr),
        examined |-> <<"empty", "slash", "parts", "ip">>]
  ELSE IF To4(ip) = Nil
  THEN [err |-> Error(ErrIPv6Addr, <<>>),
        examined |-> <<"empty", "slash", "parts", "ip", "ipv4">>]
  ELSE validatePrefix(prefixStr, Atoi(prefixStr))

\* the checks on the parts of a split input
validateParts(parts) ==
  IF Len(parts) # 2
  THEN [err |-> Error(ErrFormat, <<>>),
        examined |-> <<"empty", "slash", "parts">>]
  ELSE validateIP(parts[1], parts[2], ParseIP(parts[1]))

\* a faulty validateCIDRFormat: the slash is looked for before the input is
\* tested for being empty
validateCIDRFormat_slashFirst(c) ==
  IF ~Contains(c, "/")
  THEN [err |-> Error(ErrFormat, <<>>), examined |-> <<"slash">>]
  ELSE IF c = <<>>
  THEN [err |-> Error(ErrEmpty, <<>>), examined |-> <<"slash", "empty">>]
  ELSE validateParts(Split(c, "/"))

\* a faulty validateCIDRFormat: the parts after the second are ignored
validateCIDRFormat_firstTwoParts(c) ==
  IF c = <<>> THEN [err |-> Error(ErrEmpty, <<>>), examined |-> <<"empty">>]
  ELSE IF ~Contains(c, "/")
  THEN [err |-> Error(ErrFormat, <<>>), examined |-> <<"empty", "slash">>]
  ELSE validateParts(Take(Split(c, "/"), 2))

validateCIDRFormat(c) ==
  IF c = <<>> THEN [err |-> Error(ErrEmpty, <<>>), examined |-> <<"empty">>]
  ELSE IF ~Contains(c, "/")
  THEN [err |-> Error(ErrFormat, <<>>), examined |-> <<"empty", "slash">>]
  ELSE validateParts(Split(c, "/"))

(***************************************************************************)
(* ParseCIDR: [info, err, examined, calls].  info is NilInfo exactly when  *)
(* the code returns a nil *NetworkInfo.                                    *)
(***************************************************************************)
NilInfo == [isNil |-> TRUE]

\* the descriptor before calculateUsableRange fills in the usable range
newNetworkInfo(netIP, mask, wildcardMask) ==
  [isNil         |-> FALSE,
   Network       |-> [IP |-> netIP, Mask |-> mask],
   NetworkID     |-> netIP,
   PrefixLength  |-> MaskSize(mask),
   SubnetMask    |-> mask,
   WildcardMask  |-> wildcardMask,
   BroadcastAddr |-> calculateBroadcastAddress(netIP, wildcardMask),
   FirstUsableIP |-> Nil,
   LastUsableIP  |-> Nil,
   TotalHosts    |-> U32(0)]

\* ParseCIDR from the calculations on (lines 39-56)
describe(examined0, networkInfo) ==
  [info |-> calculateUsableRange(networkInfo), err |-> NoErr,
   examined |-> examined0 \o <<"net.ParseCIDR", "To4">>,
   calls |-> usableRangeCalls(networkInfo)]

\* a faulty ParseCIDR: the descriptor is allocated before net.ParseCIDR is
\* called and returned, empty, together with its error
parseChecked_partial(c, examined0, r) ==
  IF ~r.ok
  THEN [info |-> [NilInfo EXCEPT !.isNil = FALSE], err |-> Error(ErrParse, c),
        examined |-> examined0 \o <<"net.ParseCIDR">>, calls |-> <<>>]
  ELSE IF To4(r.ip) = Nil
  THEN [info |-> NilInfo, err |-> Error(ErrIPv6CIDR, <<>>),
        examined |-> examined0 \o <<"net.ParseCIDR", "To4">>, calls |-> <<>>]
  ELSE describe(examined0,
                newNetworkInfo(r.netIP, r.mask, calculateWildcardMask(r.mask)))

\* ParseCIDR after net.ParseCIDR returned r (lines 27-56)
parseChecked(c, examined0, r) ==
  IF ~r.ok
  THEN [info |-> NilInfo, err |-> Error(ErrParse, c),
        examined |-> examined0 \o <<"net.ParseCIDR">>, calls |-> <<>>]
  ELSE IF To4(r.ip) = Nil
  THEN [info |-> NilInfo, err |-> Error(ErrIPv6CIDR, <<>>),
        examined |-> examined0 \o <<"net.ParseCIDR", "To4">>, calls |-> <<>>]
  ELSE describe(examined0,
                newNetworkInfo(r.netIP, r.mask, calculateWildcardMask(r.mask)))

\* ParseCIDR after validateCIDRFormat returned v (lines 21-56)
parseValidated(c, v) ==
  IF v.err # NoErr
  THEN [info |-> NilInfo, err |-> v.err, examined |-> v.examined,
        calls |-> <<>>]
  ELSE parseChecked(c, v.examined, netParseCIDR(c))

ParseCIDR(c) == parseValidated(c, validateCIDRFormat(c))

(***************************************************************************)
(* IP.String: dotted decimal for an address with a 4-byte form, otherwise  *)
(* the IPv6 text, with "::" in place of the longest run of two or more     *)
(* zero groups.                                                            *)
(***************************************************************************)
hexDigit == <<"0", "1", "2", "3", "4", "5", "6", "7", "8", "9", "a", "b", "c", "d", "e", "f">>

\* appendHex: a number in hexadecimal without leading zeros
RECURSIVE appendHex(_)
appendHex(n) ==
  IF n < 16 THEN <<hexDigit[n + 1]>>
  ELSE appendHex(n \div 16) \o <<hexDigit[(n % 16) + 1]>>

\* "?" and the bytes in hexadecimal, for a length that is neither 4 nor 16
RECURSIVE hexBytes(_)
hexBytes(ip) ==
  IF Len(ip) = 0 THEN <<>>
  ELSE <<hexDigit[(ip[1] \div 16) + 1], hexDigit[(ip[1] % 16) + 1]>>
       \o hexBytes(Tail(ip))

hexString(ip) == <<"?">> \o hexBytes(ip)

\* the end of the run of zero groups that starts at byte offset j
RECURSIVE zeroRunEnd(_, _)
zeroRunEnd(p, j) ==
  IF j < IPv6len /\ p[j + 1] = 0 /\ p[j + 2] = 0 THEN zeroRunEnd(p, j + 2)
  ELSE j

\* the longest run of zero groups <<e0, e1>>, the first one among equals
RECURSIVE longestZeroRun(_, _, _, _)
keepLongest(p, i, e0, e1, j) ==
  IF j > i /\ j - i > e1 - e0 THEN longestZeroRun(p, j + 2, i, j)
  ELSE longestZeroRun(p, i + 2, e0, e1)

longestZeroRun(p, i, e0, e1) ==
  IF i >= IPv6len THEN <<e0, e1>>
  ELSE keepLongest(p, i, e0, e1, zeroRunEnd(p, i))

hexGroup(p, i) == appendHex(p[i + 1] * 256 + p[i + 2])

RECURSIVE printGroups(_, _, _, _)
printGroups(p, i, e0, e1) ==
  IF i >= IPv6len THEN <<>>
  ELSE IF i = e0
  THEN <<":", ":">> \o (IF e1 >= IPv6len THEN <<>>
                        ELSE hexGroup(p, e1) \o printGroups(p, e1 + 2, e0, e1))
  ELSE (IF i > 0 THEN <<":">> ELSE <<>>)
       \o hexGroup(p, i) \o printGroups(p, i + 2, e0, e1)

ipv6String(p, e) ==
  IF e[2] - e[1] <= 2 THEN printGroups(p, 0, -1, -1)
  ELSE printGroups(p, 0, e[1], e[2])

dottedString(ip, p4) ==
  IF Len(ip) = 0 THEN <<"<", "n", "i", "l", ">">>
  ELSE IF Len(p4) = IPv4len THEN Join([k \in 1..4 |-> Itoa(p4[k])], ".")
  ELSE IF Len(ip) # IPv6len THEN hexString(ip)
  ELSE ipv6String(ip, longestZeroRun(ip, 0, -1, -1))

IPString(ip) == dottedString(ip, To4(ip))

(***************************************************************************)
(* CalculateSubnets.                                                       *)
(***************************************************************************)
maxSubnetsToDisplay == 100

\* calculateSubnetBroadcast indexes the 4-byte wildcard mask of the child
\* prefix with every index of networkID: a longer networkID is an index
\* out of range, a run-time panic
subnetBroadcastPanics(networkID, prefixLength) ==
  Len(networkID) > Len(calculateWildcardMask(CIDRMask(prefixLength, 32)))

calculateSubnetBroadcast(networkID, prefixLength) ==
  [i \in 1..Len(networkID) |->
     ByteOr(networkID[i],
            calculateWildcardMask(CIDRMask(prefixLength, 32))[i])]

\* the number of subnets: 1 << (nextPrefixLength - PrefixLength), capped at
\* maxSubnetsToDisplay for a prefix length of at most 16
capTaken(prefixLength, numSubnets) ==
  prefixLength <= 16 /\ U32Gt(numSubnets, U32(maxSubnetsToDisplay))

capSubnets(prefixLength, numSubnets) ==
  IF capTaken(prefixLength, numSubnets)
  THEN U32(maxSubnetsToDisplay) ELSE numSubnets

\* the number of subnets three prefix levels down
countSubnets_threeLevels(prefixLength) ==
  U32Shl(U32(1), (prefixLength + 3) - prefixLength)

\* numSubnets before the cap (line 192)
countSubnets(prefixLength) ==
  U32Shl(U32(1), (prefixLength + 1) - prefixLength)

\* nothing computed: CalculateSubnets not called, or returned for a /32
NoEnumeration == [numSubnets |-> U32(0), capped |-> FALSE]

\* numSubnets as CalculateSubnets computes it, and whether the branch of the
\* cap is taken
enumerationIn(network) ==
  IF network.PrefixLength >= 32 THEN NoEnumeration
  ELSE [numSubnets |-> countSubnets(network.PrefixLength),
        capped |-> capTaken(network.PrefixLength, countSubnets(network.PrefixLength))]

\* the number of subnets two prefix levels down
numSubnetsOf_twoLevels(prefixLength) ==
  capSubnets(prefixLength, U32Shl(U32(1), (prefixLength + 2) - prefixLength))

numSubnetsOf(prefixLength) ==
  capSubnets(prefixLength, countSubnets(prefixLength))

\* the SubnetInfo of one turn of the loop
newSubnetInfo(currentNetworkID, nextPrefixLength) ==
  [NetworkID     |-> currentNetworkID,
   CIDR          |-> IPString(currentNetworkID) \o <<"/">>
                       \o FormatInt(nextPrefixLength),
   BroadcastAddr |-> calculateSubnetBroadcast(currentNetworkID, nextPrefixLength)]

\* the record of the addToIP call of one turn, moved being the memory and
\* the slice it returned
addToIPCall(h, ip, value, moved) ==
  [fn |-> "addToIP", ip |-> h[ip], value |-> value, after |-> moved.heap[ip]]

\* currentNetworkID is a slice of the memory h; the arrays of a SubnetInfo
\* are new ones that nothing else refers to
RECURSIVE subnetLoop(_, _, _, _, _, _, _, _)
subnetLoop(i, numSubnets, h, currentNetworkID, nextPrefixLength, subnetSize, acc, cs) ==
  IF ~U32Gt(numSubnets, U32(i))
  THEN [panic |-> FALSE, subnets |-> acc, calls |-> cs, heap |-> h]
  ELSE IF subnetBroadcastPanics(h[currentNetworkID], nextPrefixLength)
  THEN [panic |-> TRUE, subnets |-> acc, calls |-> cs, heap |-> h]
  ELSE subnetLoop(i + 1, numSubnets,
                  addToIPAt(h, currentNetworkID, subnetSize).heap,
                  addToIPAt(h, currentNetworkID, subnetSize).ref,
                  nextPrefixLength, subnetSize,
                  Append(acc, newSubnetInfo(h[currentNetworkID], nextPrefixLength)),
                  Append(cs, addToIPCall(h, currentNetworkID, subnetSize,
                                         addToIPAt(h, currentNetworkID, subnetSize))))

\* CalculateSubnets on a memory whose array 1 is that of network.NetworkID;
\* currentNetworkID starts as a copy of it (lines 204-205)
CalculateSubnets(network) ==
  IF network.PrefixLength >= 32
  THEN [panic |-> FALSE, subnets |-> <<>>, calls |-> <<>>,
        heap |-> <<network.NetworkID>>]
  ELSE subnetLoop(0, numSubnetsOf(network.PrefixLength),
                  newSlice(<<network.NetworkID>>, network.NetworkID).heap,
                  newSlice(<<network.NetworkID>>, network.NetworkID).ref,
                  network.PrefixLength + 1,
                  U32Shl(U32(1), 32 - (network.PrefixLength + 1)), <<>>, <<>>)

\* the descriptor handed to CalculateSubnets as the memory h leaves it:
\* NetworkID, Network.IP and, for a /31 and a /32, FirstUsableIP are slices
\* of array 1
networkAfter(network, h) ==
  [network EXCEPT !.NetworkID = h[1],
                  !.Network = [IP |-> h[1], Mask |-> network.Network.Mask],
                  !.FirstUsableIP = IF network.PrefixLength >= 31 THEN h[1] ELSE @]

(***************************************************************************)
(* The inputs of the model.                                                *)
(***************************************************************************)
SampleOctets == <<0, 255, 1, 192, 168, 10, 172, 16, 128, 254>>

Octets == {SampleOctets[i] : i \in 1..MaxSample}

\* the addresses of the documented scenarios
ScenarioAddrs == {<<192, 168, 1, 0>>, <<10, 0, 0, 1>>, <<172, 16, 0, 0>>}

SampleAddrs == {<<a, b, c, d>> : a \in Octets, b \in Octets, c \in Octets,
                                 d \in Octets} \cup ScenarioAddrs

\* the canonical dotted-decimal text of four bytes
DottedText(a) == Join([k \in 1..4 |-> Itoa(a[k])], ".")

GoodAddrTexts == {DottedText(a) : a \in SampleAddrs}

GoodPrefixTexts == {Itoa(p) : p \in 0..32}

ScenarioTexts == {DottedText(a) : a \in ScenarioAddrs}

\* address substrings that are no IP address at all
BadAddrTexts ==
  { <<"2", "5", "6", ".", "2", "5", "6", ".", "2", "5", "6", ".", "2", "5", "6">>,
    <<"1", "9", "2", ".", "1", "6", "8", ".", "1", ".", "2", "5", "6">>,
    <<"a", "b", "c", ".", "d", "e", "f", ".", "g", "h", "i", ".", "j", "k", "l">>,
    <<"1", ".", "2", ".", "3">>,
    <<"1", ".", "2", ".", "3", ".", "4", ".", "5">>,
    <<"1", ".", ".", "2", ".", "3">>,
    <<"0", "1", ".", "2", ".", "3", ".", "4">>,
    <<"1", ".", "2", ".", "3", ".", "4", " ">>,
    <<"1", "2", "3", "4">>,
    <<>>,
    <<"1", ".", "2", ".", "3", ".", "4", "x">> }

\* IPv6 literals that have no 4-byte form
IPv6AddrTexts ==
  { <<"2", "0", "0", "1", ":", "d", "b", "8", ":", ":", "1">>,
    <<":", ":", "1">>,
    <<":", ":">>,
    <<"f", "e", "8", "0", ":", ":", "1", ":", "2">>,
    <<"1", ":", "2", ":", "3", ":", "4", ":", "5", ":", "6", ":", "7", ":", "8">>,
    <<":", ":", "1", ".", "2", ".", "3", ".", "4">> }

\* substrings with a colon that are no IPv6 literal
BadColonTexts ==
  { <<"1", ":", "2">>,
    <<"2", "0", "0", "1", ":", "d", "b", "8", ":", ":", "1", ":", ":", "2">>,
    <<":", "1", ".", "2", ".", "3", ".", "4">>,
    <<":", ":", "f", "f", "f", "f", ":", "1", ".", "2", ".", "3", ".", "2", "5", "6">>,
    <<"1", "2", "3", "4", "5", ":", ":", "1">> }

\* IPv6 literals of IPv4-mapped addresses (::ffff:a.b.c.d)
MappedAddrTexts ==
  { <<":", ":", "f", "f", "f", "f", ":", "1", ".", "2", ".", "3", ".", "4">>,
    <<":", ":", "f", "f", "f", "f", ":", "2", "5", "5", ".", "2", "5", "5", ".", "2", "5", "5", ".", "2", "5", "5">>,
    <<"0", ":", "0", ":", "0", ":", "0", ":", "0", ":", "f", "f", "f", "f", ":", "c", "0", "a", "8", ":", "1", "0", "0">>,
    <<":", ":", "F", "F", "F", "F", ":", "1", "0", ".", "0", ".", "0", ".", "1">> }

\* prefix substrings other than the canonical 0..32
BadPrefixTexts ==
  { <<"3", "3">>,
    <<"9", "9">>,
    <<"-", "1">>,
    <<"a", "b", "c">>,
    <<>>,
    <<"+", "8">>,
    <<"0", "8">>,
    <<"1", "2", "8">>,
    <<"6", "4">>,
    <<"-", "0">>,
    <<"3", " ", "2">>,
    <<"9", "9", "9", "9", "9", "9", "9", "9", "9", "9", "9", "9", "9", "9", "9", "9", "9", "9", "9", "9">> }


\* prefix substrings that are integers at the edges of the range of int, or
\* written with a sign or with leading zeros
IntEdgePrefixTexts ==
  { <<"+", "3", "3">>,
    <<"9", "2", "2", "3", "3", "7", "2", "0", "3", "6", "8", "5", "4", "7", "7", "5", "8", "0", "7">>,
    <<"9", "2", "2", "3", "3", "7", "2", "0", "3", "6", "8", "5", "4", "7", "7", "5", "8", "0", "8">>,
    <<"-", "9", "2", "2", "3", "3", "7", "2", "0", "3", "6", "8", "5", "4", "7", "7", "5", "8", "0", "8">>,
    <<"-", "9", "2", "2", "3", "3", "7", "2", "0", "3", "6", "8", "5", "4", "7", "7", "5", "8", "0", "9">>,
    <<"0", "0", "0", "0", "0", "0", "0", "0", "0", "0", "0", "0", "0", "0", "0", "0", "0", "0", "0", "0", "3", "3">>,
    <<"0", "0", "0", "0", "0", "0", "0", "0", "0", "0", "0", "0", "0", "0", "0", "0", "0", "0", "0", "0", "8">>,
    <<"1", "8", "4", "4", "6", "7", "4", "4", "0", "7", "3", "7", "0", "9", "5", "5", "1", "6", "1", "6">>,
    <<"+", "0">>,
    <<"0", "3", "2">> }

\* prefix substrings that are no base-10 integer
NonIntegerPrefixTexts ==
  { <<"1", ".", "5">>,
    <<"0", "x", "1", "0">>,
    <<"1", "_", "0">>,
    <<" ", "8">>,
    <<"8", " ">>,
    <<"-", "-", "1">>,
    <<"+">>,
    <<"-">>,
    <<"1", "e", "1">>,
    <<"2", "a">>,
    <<"+", "-", "3">>,
    <<"3", "-">> }

\* prefix substrings tried with every address substring
FewPrefixTexts == {Itoa(0), Itoa(24), Itoa(32)} \cup BadPrefixTexts

OddAddrTexts == BadAddrTexts \cup IPv6AddrTexts \cup BadColonTexts

Slash(a, p) == a \o <<"/">> \o p

Inputs ==
  {<<>>}
  \cup {Slash(a, p) : a \in GoodAddrTexts, p \in GoodPrefixTexts}
  \cup {Slash(a, p) : a \in ScenarioTexts, p \in BadPrefixTexts}
  \cup {Slash(a, p) : a \in ScenarioTexts,
                      p \in IntEdgePrefixTexts \cup NonIntegerPrefixTexts}
  \cup {Slash(a, p) : a \in MappedAddrTexts,
                      p \in GoodPrefixTexts \cup BadPrefixTexts}
  \cup {Slash(a, p) : a \in OddAddrTexts, p \in FewPrefixTexts}
  \cup {a : a \in ScenarioTexts \cup OddAddrTexts \cup FewPrefixTexts}
  \cup {Slash(Slash(a, p), q) : a \in ScenarioTexts \cup OddAddrTexts,
                                p \in FewPrefixTexts, q \in {Itoa(25), <<>>}}
  \cup {<<"/">>, <<"/", "/">>}

(***************************************************************************)
(* The text renderer (OutputFormatter.FormatNetworkInfo).  The rendered    *)
(* string is a sequence of characters, its lines ended by "\n".            *)
(***************************************************************************)
\* fmt's %d of a uint32: long division by ten over the two halves
RECURSIVE FormatUint(_)
FormatUint(x) ==
  LET mid == (x.hi % 10) * Half + x.lo
      q   == [hi |-> x.hi \div 10, lo |-> mid \div 10]
  IN  IF q.hi = 0 /\ q.lo = 0 THEN <<Digits[(mid % 10) + 1]>>
      ELSE FormatUint(q) \o <<Digits[(mid % 10) + 1]>>

\* the width of the label column in "  %-15s %s\n"
labelWidth == 15

\* fmt's %-15s: s followed by spaces up to the width
PadRight(s, width) ==
  IF Len(s) >= width THEN s ELSE s \o [i \in 1..(width - Len(s)) |-> " "]

\* fmt.Sprintf("  %-15s %s\n", label, value)
FormatLine(label, value) ==
  <<" ", " ">> \o PadRight(label, labelWidth) \o <<" ">> \o value \o <<"\n">>

\* OutputFormatter.formatIPMask
formatIPMask(mask) ==
  IF Len(mask) # 4 THEN <<"I", "n", "v", "a", "l", "i", "d", " ", "m", "a", "s", "k">>
  ELSE Join([k \in 1..4 |-> Itoa(mask[k])], ".")

\* the network information section of FormatNetworkInfo (lines 1201-1207)
networkSection(i) ==
  <<"N", "e", "t", "w", "o", "r", "k", " ", "I", "n", "f", "o", "r", "m", "a", "t", "i", "o", "n", ":">> \o <<"\n">>
  \o FormatLine(<<"C", "I", "D", "R", ":">>, IPString(i.NetworkID) \o <<"/">> \o FormatInt(i.PrefixLength))
  \o FormatLine(<<"N", "e", "t", "w", "o", "r", "k", " ", "I", "D", ":">>, IPString(i.NetworkID))
  \o FormatLine(<<"B", "r", "o", "a", "d", "c", "a", "s", "t", ":">>, IPString(i.BroadcastAddr))
  \o FormatLine(<<"S", "u", "b", "n", "e", "t", " ", "M", "a", "s", "k", ":">>, formatIPMask(i.SubnetMask))
  \o FormatLine(<<"W", "i", "l", "d", "c", "a", "r", "d", " ", "M", "a", "s", "k", ":">>, formatIPMask(i.WildcardMask))
  \o <<"\n">>

\* the host section always rendered by the default branch
hostSection_default(i) ==
  <<"H", "o", "s", "t", " ", "I", "n", "f", "o", "r", "m", "a", "t", "i", "o", "n", ":">> \o <<"\n">>
  \o FormatLine(<<"F", "i", "r", "s", "t", " ", "U", "s", "a", "b", "l", "e", ":">>, IPString(i.FirstUsableIP))
  \o FormatLine(<<"L", "a", "s", "t", " ", "U", "s", "a", "b", "l", "e", ":">>, IPString(i.LastUsableIP))
  \o FormatLine(<<"T", "o", "t", "a", "l", " ", "H", "o", "s", "t", "s", ":">>, FormatUint(i.TotalHosts))

\* the host information section of FormatNetworkInfo: the switch on the
\* prefix length (lines 1210-1225)
hostSection(i) ==
  <<"H", "o", "s", "t", " ", "I", "n", "f", "o", "r", "m", "a", "t", "i", "o", "n", ":">> \o <<"\n">>
  \o ( IF i.PrefixLength = 32 THEN
         FormatLine(<<"H", "o", "s", "t", " ", "A", "d", "d", "r", "e", "s", "s", ":">>, IPString(i.FirstUsableIP) \o <<" ", "(", "s", "i", "n", "g", "l", "e", " ", "h", "o", "s", "t", ")">>)
         \o FormatLine(<<"T", "o", "t", "a", "l", " ", "H", "o", "s", "t", "s", ":">>, FormatUint(i.TotalHosts))
       ELSE IF i.PrefixLength = 31 THEN
         FormatLine(<<"F", "i", "r", "s", "t", " ", "A", "d", "d", "r", "e", "s", "s", ":">>, IPString(i.FirstUsableIP) \o <<" ", "(", "p", "o", "i", "n", "t", "-", "t", "o", "-", "p", "o", "i", "n", "t", ")">>)
         \o FormatLine(<<"S", "e", "c", "o", "n", "d", " ", "A", "d", "d", "r", "e", "s", "s", ":">>, IPString(i.LastUsableIP) \o <<" ", "(", "p", "o", "i", "n", "t", "-", "t", "o", "-", "p", "o", "i", "n", "t", ")">>)
         \o FormatLine(<<"T", "o", "t", "a", "l", " ", "H", "o", "s", "t", "s", ":">>, FormatUint(i.TotalHosts))
       ELSE
         FormatLine(<<"F", "i", "r", "s", "t", " ", "U", "s", "a", "b", "l", "e", ":">>, IPString(i.FirstUsableIP))
         \o FormatLine(<<"L", "a", "s", "t", " ", "U", "s", "a", "b", "l", "e", ":">>, IPString(i.LastUsableIP))
         \o FormatLine(<<"T", "o", "t", "a", "l", " ", "H", "o", "s", "t", "s", ":">>, FormatUint(i.TotalHosts)) )

\* OutputFormatter.FormatNetworkInfo
FormatNetworkInfo(i) == networkSection(i) \o hostSection(i)

(***************************************************************************)
(* The state machine: one request.  ParseCIDR is called on an input, and   *)
(* CalculateSubnets on the descriptor it returned (CLIHandler.Run).        *)
(***************************************************************************)
\* helper: the call of one of the calculator's address helpers on its own,
\* as the unit tests make it, with its arguments and its result
NoCall == [fn |-> "none", text |-> <<>>, ip |-> Nil, value |-> U32(0), result |-> Nil]

\* config: the Config of the command line; run: how far CLIHandler.Run got
\* and the error it returned; enumeration: the subnet count of
\* CalculateSubnets; output: the rendered text; intermediate: the power of two
\* that the host count expression of ParseCIDR passed through
NoConfig == [CIDR |-> <<>>, OutputFile |-> <<>>, HTMLOutput |-> FALSE, ShowHelp |-> FALSE]

NotRun == [at |-> "start", err |-> NoErr, cause |-> NoErr]

Init ==
  /\ cidr = <<>>
  /\ phase = "idle"
  /\ err = NoErr
  /\ examined = <<>>
  /\ info = NilInfo
  /\ subnets = <<>>
  /\ calls = <<>>
  /\ helper = NoCall
  /\ config = NoConfig
  /\ run = NotRun
  /\ output = <<>>
  /\ enumeration = NoEnumeration
  /\ intermediate = NoShift

ParseCIDRReturns(c, r) ==
  /\ cidr' = c
  /\ intermediate' = IF r.err = NoErr THEN usableRangeShift(r.info) ELSE NoShift
  /\ err' = r.err
  /\ examined' = r.examined
  /\ info' = r.info
  /\ calls' = r.calls
  /\ phase' = IF r.err = NoErr THEN "parsed" ELSE "failed"

ParseCIDRStep ==
  /\ phase = "idle"
  /\ \E c \in Inputs : ParseCIDRReturns(c, ParseCIDR(c))
  /\ UNCHANGED <<subnets, helper, config, run, output, enumeration>>

CalculateSubnetsReturns(r) ==
  /\ subnets' = r.subnets
  /\ calls' = r.calls
  /\ enumeration' = enumerationIn(info)
  /\ info' = networkAfter(info, r.heap)
  /\ phase' = IF r.panic THEN "panicked" ELSE "enumerated"

CalculateSubnetsStep ==
  /\ phase = "parsed"
  /\ CalculateSubnetsReturns(CalculateSubnets(info))
  /\ UNCHANGED <<cidr, err, examined, helper, config, run, output, intermediate>>

\* the descriptor is rendered once the subnets are there (handleOutput)
FormatNetworkInfoStep ==
  /\ phase = "enumerated"
  /\ output = <<>>
  /\ output' = FormatNetworkInfo(info)
  /\ UNCHANGED <<cidr, phase, err, examined, info, subnets, calls, helper, config, run, enumeration, intermediate>>

Next == ParseCIDRStep \/ CalculateSubnetsStep \/ FormatNetworkInfoStep

Spec == Init /\ [][Next]_vars

(***************************************************************************)
(* The address helpers on their own: incrementIP and decrementIP on an     *)
(* address in its 4-byte or its 16-byte form (the unit tests pass them     *)
(* the result of net.ParseIP), addToIP on a 4-byte address and a uint32,   *)
(* and net.ParseIP followed by IP.String on an address text.               *)
(***************************************************************************)
SampleDeltas ==
  { U32(0), U32(1), U32(255), U32(256), U32(65535),
    [hi |-> 1, lo |-> 0], [hi |-> 255, lo |-> 65535], [hi |-> 256, lo |-> 0],
    [hi |-> 16384, lo |-> 0], [hi |-> 32768, lo |-> 0],
    [hi |-> 65535, lo |-> 65535] }

HelperAddrs == SampleAddrs \cup {IPv4(a) : a \in SampleAddrs}

HelperTexts == GoodAddrTexts \cup BadAddrTexts

IncrementIPStep ==
  /\ helper.fn = "none"
  /\ \E x \in HelperAddrs :
       helper' = [fn |-> "incrementIP", text |-> <<>>, ip |-> x,
                  value |-> U32(0), result |-> incrementIP(x)]
  /\ UNCHANGED <<cidr, phase, err, examined, info, subnets, calls, config, run, output, enumeration, intermediate>>

DecrementIPStep ==
  /\ helper.fn = "none"
  /\ \E x \in HelperAddrs :
       helper' = [fn |-> "decrementIP", text |-> <<>>, ip |-> x,
                  value |-> U32(0), result |-> decrementIP(x)]
  /\ UNCHANGED <<cidr, phase, err, examined, info, subnets, calls, config, run, output, enumeration, intermediate>>

AddToIPStep ==
  /\ helper.fn = "none"
  /\ \E x \in SampleAddrs, d \in SampleDeltas :
       helper' = [fn |-> "addToIP", text |-> <<>>, ip |-> x,
                  value |-> d, result |-> addToIP(x, d)]
  /\ UNCHANGED <<cidr, phase, err, examined, info, subnets, calls, config, run, output, enumeration, intermediate>>

\* net.ParseIP(s).String(), ip being net.ParseIP(s)
StringOfParsed(s, ip) ==
  helper' = [fn |-> "String", text |-> s, ip |-> ip, value |-> U32(0),
             result |-> IPString(ip)]

RoundTripStep ==
  /\ helper.fn = "none"
  /\ \E s \in HelperTexts : StringOfParsed(s, ParseIP(s))
  /\ UNCHANGED <<cidr, phase, err, examined, info, subnets, calls, config, run, output, enumeration, intermediate>>

HelperNext ==
  IncrementIPStep \/ DecrementIPStep \/ AddToIPStep \/ RoundTripStep

HelperSpec == Init /\ [][HelperNext]_vars

(***************************************************************************)
(* The command line (CLIHandler).  parseFlags fills a Config from the      *)
(* arguments and validates it; Run then parses the CIDR, enumerates the    *)
(* subnets and hands the result to handleOutput, which prints it or saves  *)
(* it through SaveTextToFile or SaveHTMLToFile.  Path names are those of   *)
(* a Unix build, whose only path separator is '/'.                         *)
(***************************************************************************)
UpperLetters == <<"A", "B", "C", "D", "E", "F", "G", "H", "I", "J", "K", "L", "M", "N", "O", "P", "Q", "R", "S", "T", "U", "V", "W", "X", "Y", "Z">>

LowerLetters == <<"a", "b", "c", "d", "e", "f", "g", "h", "i", "j", "k", "l", "m", "n", "o", "p", "q", "r", "s", "t", "u", "v", "w", "x", "y", "z">>

\* strings.ToLower on the ASCII names of the model
ToLower(s) ==
  [i \in 1..Len(s) |->
     IF \E k \in 1..26 : UpperLetters[k] = s[i]
     THEN LowerLetters[CHOOSE k \in 1..26 : UpperLetters[k] = s[i]]
     ELSE s[i]]

\* strings.HasSuffix
HasSuffix(s, suffix) ==
  Len(s) >= Len(suffix) /\ SubSeq(s, Len(s) - Len(suffix) + 1, Len(s)) = suffix

\* filepath.Ext: the suffix of the last path element from its last dot on,
\* scanning i from the end of the path down to a separator
RECURSIVE extFrom(_, _)
extFrom(path, i) ==
  IF i < 1 \/ path[i] = "/" THEN <<>>
  ELSE IF path[i] = "." THEN SubSeq(path, i, Len(path))
  ELSE extFrom(path, i - 1)

Ext(path) == extFrom(path, Len(path))

ErrHTMLFile == "HTML output requires .html or .htm file extension"

ErrHTMLFlag == "HTML file extension requires --html flag"

ErrNoCIDR == "CIDR notation is required"

ErrRunParse == "failed to parse CIDR: %v"

ErrTextExt == "text output requires .txt extension, got: %s"

ErrHTMLExt == "HTML output requires .html or .htm extension, got: %s"

\* validateConfig without the lowering of the file name
validateConfig_caseSensitive(cfg) ==
  IF cfg.HTMLOutput /\ cfg.OutputFile # <<>>
       /\ ~HasSuffix(cfg.OutputFile, <<".", "h", "t", "m", "l">>) /\ ~HasSuffix(cfg.OutputFile, <<".", "h", "t", "m">>)
    THEN Error(ErrHTMLFile, <<>>)
  ELSE IF ~cfg.HTMLOutput /\ cfg.OutputFile # <<>>
       /\ (HasSuffix(cfg.OutputFile, <<".", "h", "t", "m", "l">>) \/ HasSuffix(cfg.OutputFile, <<".", "h", "t", "m">>))
    THEN Error(ErrHTMLFlag, <<>>)
  ELSE NoErr

\* CLIHandler.validateConfig
validateConfig(cfg) ==
  IF cfg.HTMLOutput /\ cfg.OutputFile # <<>>
       /\ ~HasSuffix(ToLower(cfg.OutputFile), <<".", "h", "t", "m", "l">>)
       /\ ~HasSuffix(ToLower(cfg.OutputFile), <<".", "h", "t", "m">>)
    THEN Error(ErrHTMLFile, <<>>)
  ELSE IF ~cfg.HTMLOutput /\ cfg.OutputFile # <<>>
       /\ (HasSuffix(ToLower(cfg.OutputFile), <<".", "h", "t", "m", "l">>)
           \/ HasSuffix(ToLower(cfg.OutputFile), <<".", "h", "t", "m">>))
    THEN Error(ErrHTMLFlag, <<>>)
  ELSE NoErr

\* hasValidTextExtension knowing .txt only
hasValidTextExtension_txtOnly(filename) == ToLower(Ext(filename)) \in {<<".", "t", "x", "t">>}

\* OutputFormatter.hasValidTextExtension
hasValidTextExtension(filename) == ToLower(Ext(filename)) \in {<<".", "t", "x", "t">>, <<".", "t", "e", "x", "t">>}

\* OutputFormatter.hasValidHTMLExtension
hasValidHTMLExtension(filename) == ToLower(Ext(filename)) \in {<<".", "h", "t", "m", "l">>, <<".", "h", "t", "m">>}

\* what the path checks and the file system of SaveToFile can answer: nil,
\* a refused path, a file that cannot be created
SaveOutcomes == {"", "invalid file path: %v", "failed to create file %s: %v"}

Ended(at, e, cause) == [at |-> at, err |-> e, cause |-> cause]

\* OutputFormatter.SaveToFile, io being the answer of the path checks and
\* of the file system
SaveToFile(filename, io) ==
  IF io = "" THEN Ended("saved", NoErr, NoErr)
  ELSE Ended("failed", Error(io, filename), NoErr)

\* OutputFormatter.SaveTextToFile
SaveTextToFile(filename, io) ==
  IF ~hasValidTextExtension(filename)
    THEN Ended("failed", Error(ErrTextExt, filename), NoErr)
  ELSE SaveToFile(filename, io)

\* OutputFormatter.SaveHTMLToFile
SaveHTMLToFile(filename, io) ==
  IF ~hasValidHTMLExtension(filename)
    THEN Ended("failed", Error(ErrHTMLExt, filename), NoErr)
  ELSE SaveToFile(filename, io)

\* CLIHandler.handleOutput
handleOutput(cfg, io) ==
  IF cfg.OutputFile # <<>>
    THEN IF cfg.HTMLOutput THEN SaveHTMLToFile(cfg.OutputFile, io)
         ELSE SaveTextToFile(cfg.OutputFile, io)
  ELSE Ended("printed", NoErr, NoErr)

\* CLIHandler.Run after parseFlags has returned cfg, parsed being the result
\* of ParseCIDR on cfg.CIDR
runConfigured(cfg, parsed, io) ==
  IF cfg.ShowHelp THEN Ended("help", NoErr, NoErr)
  ELSE IF cfg.CIDR = <<>> THEN Ended("failed", Error(ErrNoCIDR, <<>>), NoErr)
  ELSE IF parsed.err # NoErr THEN Ended("failed", Error(ErrRunParse, <<>>), parsed.err)
  ELSE IF CalculateSubnets(parsed.info).panic THEN Ended("panicked", NoErr, NoErr)
  ELSE handleOutput(cfg, io)

\* output file names: a stem followed by an ending
FileNames ==
  {s \o e :
     s \in { <<>>,
            <<"o", "u", "t">>,
            <<"m", "y", ".", "r", "e", "p", "o", "r", "t">>,
            <<"d", "i", "r", ".", "h", "t", "m", "l", "/", "n", "e", "t">>,
            <<"a", ".", "t", "x", "t">>,
            <<"x", ".", "h", "t", "m">> },
     e \in { <<>>,
            <<".", "t", "x", "t">>,
            <<".", "T", "X", "T">>,
            <<".", "t", "e", "x", "t">>,
            <<".", "h", "t", "m", "l">>,
            <<".", "H", "T", "M", "L">>,
            <<".", "h", "t", "m">>,
            <<".", "H", "t", "m">>,
            <<".", "p", "d", "f">>,
            <<".", "h", "t", "m", "x">>,
            <<".">>,
            <<"h", "t", "m", "l">>,
            <<"/">>,
            <<".", "h", "t", "m", "l", ".", "b", "a", "k">> }}

Configs ==
  [CIDR : { <<>>,
           <<"1", "9", "2", ".", "1", "6", "8", ".", "1", ".", "0", "/", "2", "4">>,
           <<"1", "0", ".", "0", ".", "0", ".", "1", "/", "3", "3">>,
           <<":", ":", "f", "f", "f", "f", ":", "1", ".", "2", ".", "3", ".", "4", "/", "2", "4">> },
   OutputFile : FileNames, HTMLOutput : BOOLEAN, ShowHelp : BOOLEAN]

\* parseFlags: the flags give some Config, which validateConfig accepts or
\* rejects
parseFlagsReturns(cfg, e) ==
  /\ config' = cfg
  /\ run' = IF e = NoErr THEN Ended("configured", NoErr, NoErr)
            ELSE Ended("rejected", e, NoErr)

ParseFlagsStep ==
  /\ run.at = "start"
  /\ \E cfg \in Configs : parseFlagsReturns(cfg, validateConfig(cfg))
  /\ UNCHANGED <<cidr, phase, err, examined, info, subnets, calls, helper, output, enumeration, intermediate>>

RunStep ==
  /\ run.at = "configured"
  /\ \E io \in SaveOutcomes : run' = runConfigured(config, ParseCIDR(config.CIDR), io)
  /\ UNCHANGED <<cidr, phase, err, examined, info, subnets, calls, helper, config, output, enumeration, intermediate>>

RunNext == ParseFlagsStep \/ RunStep

RunSpec == Init /\ [][RunNext]_vars

(***************************************************************************)
(* Vocabulary of the properties.  Natural numbers of any size are          *)
(* sequences of base-256 digits, least significant first, without leading  *)
(* zero digits; the input's address and prefix are read off the text by    *)
(* plain positional decimal notation.                                      *)
(***************************************************************************)
Returned == phase \in {"parsed", "enumerated", "panicked"}

Called == phase # "idle"

SlashCount(s) == Cardinality({i \in 1..Len(s) : s[i] = "/"})

AddrPart(s) == Take(s, IndexByte(s, "/") - 1)

PrefixPart(s) == Drop(s, IndexByte(s, "/"))

AllDigits(s) == Len(s) > 0 /\ \A i \in 1..Len(s) : IsDigit(s[i])

RECURSIVE Dec(_)
Dec(s) ==
  IF Len(s) = 0 THEN 0
  ELSE 10 * Dec(Take(s, Len(s) - 1)) + DigitVal(s[Len(s)])

IsDottedQuad(s) ==
  LET f == Split(s, ".")
  IN  /\ Len(f) = 4
      /\ \A k \in 1..4 : AllDigits(f[k]) /\ Len(f[k]) <= 3 /\ Dec(f[k]) <= 255

QuadBytes(s) == [k \in 1..4 |-> Dec(Split(s, ".")[k])]

\* s is four canonical decimal numbers 0..255 separated by single dots
CanonicalQuad(s) == IsDottedQuad(s) /\ DottedText(QuadBytes(s)) = s

\* the input is a.b.c.d/<something> with a.b.c.d a canonical IPv4 address
V4Input == SlashCount(cidr) = 1 /\ CanonicalQuad(AddrPart(cidr))

InputAddr == QuadBytes(AddrPart(cidr))

InputPrefix == Dec(PrefixPart(cidr))

\* bit k of a byte sequence, bit 0 the most significant bit of the first byte
BitOf(b, k) == (b[(k \div 8) + 1] \div Pow2(7 - (k % 8))) % 2

NumBits(b) == 8 * Len(b)

RECURSIVE NatNorm(_)
NatNorm(d) ==
  IF Len(d) > 0 /\ d[Len(d)] = 0 THEN NatNorm(Take(d, Len(d) - 1)) ELSE d

Reverse(s) == [i \in 1..Len(s) |-> s[Len(s) + 1 - i]]

NatOfBytes(b) == NatNorm(Reverse(b))

NatOfU32(x) ==
  NatNorm(<<x.lo % 256, x.lo \div 256, x.hi % 256, x.hi \div 256>>)

NatSmall(n) == NatNorm(<<n % 256, n \div 256>>)

RECURSIVE NatAddC(_, _, _)
NatAddC(x, y, carry) ==
  IF Len(x) = 0 /\ Len(y) = 0
  THEN IF carry = 0 THEN <<>> ELSE <<carry>>
  ELSE LET a == IF Len(x) = 0 THEN 0 ELSE x[1]
           b == IF Len(y) = 0 THEN 0 ELSE y[1]
           s == a + b + carry
       IN  <<s % 256>> \o NatAddC(IF Len(x) = 0 THEN x ELSE Tail(x),
                                  IF Len(y) = 0 THEN y ELSE Tail(y),
                                  s \div 256)

NatAdd(x, y) == NatNorm(NatAddC(x, y, 0))

NatPow2(k) == [i \in 1..(k \div 8) |-> 0] \o <<Pow2(k % 8)>>

(***************************************************************************)
(* C1.  For every IPv4 address a and prefix length p in 0..32, the         *)
(* descriptor ParseCIDR returns for a/p has NetworkID = a AND SubnetMask   *)
(* and BroadcastAddr = NetworkID OR WildcardMask, bit for bit, also when   *)
(* a has host bits set.                                                    *)
(***************************************************************************)
C1_NetworkIdAndBroadcast ==
  (Returned /\ V4Input) =>
    /\ Len(info.NetworkID) = 4
    /\ Len(info.BroadcastAddr) = 4
    /\ Len(info.SubnetMask) = 4
    /\ Len(info.WildcardMask) = 4
    /\ \A k \in 0..31 :
         /\ BitOf(info.NetworkID, k)
              = BitOf(InputAddr, k) * BitOf(info.SubnetMask, k)
         /\ BitOf(info.BroadcastAddr, k)
              = IF BitOf(info.NetworkID, k) = 1 \/ BitOf(info.WildcardMask, k) = 1
                THEN 1 ELSE 0

\* an accepted IPv4 input whose address has host bits set
C1_Witness ==
  /\ Returned /\ V4Input
  /\ InputPrefix \in 1..31
  /\ info.NetworkID # InputAddr
  /\ info.BroadcastAddr # InputAddr

C3_UsableRangePolicy ==
  Returned =>
    /\ InputPrefix = 32 =>
         /\ info.FirstUsableIP = info.NetworkID
         /\ info.LastUsableIP = info.NetworkID
         /\ NatOfU32(info.TotalHosts) = NatSmall(1)
    /\ InputPrefix = 31 =>
         /\ info.FirstUsableIP = info.NetworkID
         /\ info.LastUsableIP = info.BroadcastAddr
         /\ NatOfU32(info.TotalHosts) = NatSmall(2)
    /\ InputPrefix \in 0..30 =>
         /\ NatOfBytes(info.FirstUsableIP)
              = NatAdd(NatOfBytes(info.NetworkID), NatSmall(1))
         /\ NatAdd(NatOfBytes(info.LastUsableIP), NatSmall(1))
              = NatOfBytes(info.BroadcastAddr)
         /\ Len(info.FirstUsableIP) = Len(info.NetworkID)
         /\ Len(info.LastUsableIP) = Len(info.BroadcastAddr)

\* a /31 descriptor: both addresses of the block are usable
C3_Witness ==
  /\ Returned /\ V4Input
  /\ InputPrefix = 31
  /\ info.FirstUsableIP = info.NetworkID
  /\ info.LastUsableIP = info.BroadcastAddr
  /\ info.LastUsableIP # info.FirstUsableIP

(***************************************************************************)
(* C4.  For every prefix length p in 0..30, TotalHosts is the number       *)
(* 2^(32-p) - 2, also for p = 0 (4294967294) and p = 1 (2147483646).       *)
(***************************************************************************)
C4_TotalHosts ==
  (Returned /\ InputPrefix \in 0..30) =>
    NatAdd(NatOfU32(info.TotalHosts), NatSmall(2)) = NatPow2(32 - InputPrefix)

\* 0.0.0.0/0 with its 4294967294 hosts (0xFFFFFFFE)
C4_Witness ==
  /\ Returned /\ V4Input
  /\ InputPrefix = 0
  /\ info.TotalHosts = [hi |-> 65535, lo |-> 65534]
  /\ NatOfU32(info.TotalHosts) = <<254, 255, 255, 255>>

(***************************************************************************)
(* C5.  For every descriptor ParseCIDR produced with a prefix length in    *)
(* 0..31, CalculateSubnets returns exactly two subnets: the first starts   *)
(* at the parent's NetworkID, the second starts right after the first's    *)
(* BroadcastAddr and ends at the parent's BroadcastAddr; for prefix        *)
(* length 32 it returns the empty list.                                    *)
(***************************************************************************)
TwoChildrenPartition ==
  /\ phase = "enumerated"
  /\ Len(subnets) = 2
  /\ subnets[1].NetworkID = info.NetworkID
  /\ NatAdd(NatOfBytes(subnets[1].BroadcastAddr), NatSmall(1))
       = NatOfBytes(subnets[2].NetworkID)
  /\ subnets[2].BroadcastAddr = info.BroadcastAddr
  /\ Len(subnets[1].BroadcastAddr) = Len(subnets[2].NetworkID)

C5_TwoContiguousSubnets ==
  phase \in {"enumerated", "panicked"} =>
    /\ InputPrefix \in 0..31 => TwoChildrenPartition
    /\ InputPrefix = 32 => phase = "enumerated" /\ subnets = <<>>

(***************************************************************************)
(* C6.  For a parent of prefix length p < 32, child i (i = 0, 1) returned  *)
(* by CalculateSubnets has NetworkID = parent.NetworkID + i * 2^(31-p),    *)
(* BroadcastAddr = that NetworkID OR the wildcard mask of prefix p+1, and  *)
(* CIDR = the dotted-decimal NetworkID, '/', p+1.                          *)
(***************************************************************************)
C6_ChildFields ==
  (phase = "enumerated" /\ InputPrefix < 32) =>
    \A i \in 1..Len(subnets) :
      LET child == subnets[i]
          p     == InputPrefix
      IN  /\ i <= 2
          /\ Len(child.NetworkID) = 4
          /\ Len(child.BroadcastAddr) = 4
          /\ NatOfBytes(child.NetworkID)
               = NatAdd(NatOfBytes(info.NetworkID),
                        IF i = 1 THEN <<>> ELSE NatPow2(31 - p))
          /\ \A k \in 0..31 :
               BitOf(child.BroadcastAddr, k)
                 = IF k >= p + 1 THEN 1 ELSE BitOf(child.NetworkID, k)
          /\ child.CIDR = DottedText(child.NetworkID) \o <<"/">> \o Itoa(p + 1)

\* 172.16.0.0/31 yields 172.16.0.0/32 and 172.16.0.1/32, each its own
\* broadcast address
C6_Witness ==
  /\ phase = "enumerated"
  /\ cidr = Slash(DottedText(<<172, 16, 0, 0>>), Itoa(31))
  /\ Len(subnets) = 2
  /\ subnets[1].CIDR = Slash(DottedText(<<172, 16, 0, 0>>), Itoa(32))
  /\ subnets[2].CIDR = Slash(DottedText(<<172, 16, 0, 1>>), Itoa(32))
  /\ subnets[1].BroadcastAddr = <<172, 16, 0, 0>>
  /\ subnets[2].BroadcastAddr = <<172, 16, 0, 1>>

(***************************************************************************)
(* C7.  ParseCIDR on the empty string fails with 'CIDR notation cannot be  *)
(* empty', and no other validation step is made before that check.         *)
(***************************************************************************)
C7_EmptyInputFirst ==
  (Called /\ cidr = <<>>) =>
    /\ phase = "failed"
    /\ err.msg = ErrEmpty
    /\ examined = <<"empty">>
    /\ info = NilInfo

C7_Witness ==
  /\ phase = "failed"
  /\ cidr = <<>>
  /\ err = Error(ErrEmpty, <<>>)

(***************************************************************************)
(* C8.  ParseCIDR on a non-empty input that does not contain exactly one   *)
(* '/' fails with 'invalid CIDR notation. Expected format: x.x.x.x/y',     *)
(* whatever the substrings around the slashes are.                         *)
(***************************************************************************)
C8_NotExactlyOneSlash ==
  (Called /\ cidr # <<>> /\ SlashCount(cidr) # 1) =>
    /\ phase = "failed"
    /\ err.msg = ErrFormat
    /\ info = NilInfo

\* two slashes around a valid address and two valid prefixes
C8_Witness ==
  /\ phase = "failed"
  /\ cidr = Slash(Slash(DottedText(<<192, 168, 1, 0>>), Itoa(24)), Itoa(25))
  /\ err.msg = ErrFormat

(***************************************************************************)
(* C9.  ParseCIDR accepts an address substring only if it is exactly four  *)
(* decimal components 0..255 separated by single dots; every other         *)
(* address shape (an octet above 255, letters, a wrong number of           *)
(* components) fails with 'invalid IP address format', whatever the        *)
(* prefix substring is.  The shapes with a colon, which are the matter of  *)
(* C10, are left out of the second part.                                   *)
(***************************************************************************)
C9_AddressShape ==
  (Called /\ SlashCount(cidr) = 1) =>
    /\ Returned => CanonicalQuad(AddrPart(cidr))
    /\ (~CanonicalQuad(AddrPart(cidr)) /\ ~Contains(AddrPart(cidr), ":")) =>
         /\ phase = "failed"
         /\ err = Error(ErrIP, AddrPart(cidr))

(***************************************************************************)
(* C10.  ParseCIDR fails with 'IPv6 is not supported' for every input      *)
(* whose address substring is an IPv6 literal, without examining the       *)
(* prefix substring; no input with an IPv6 literal as its address is       *)
(* accepted.                                                               *)
(***************************************************************************)
C10_IPv6Rejected ==
  (Called /\ SlashCount(cidr) = 1
          /\ AddrPart(cidr) \in IPv6AddrTexts \cup MappedAddrTexts) =>
    /\ phase = "failed"
    /\ err.msg = ErrIPv6Addr
    /\ examined = <<"empty", "slash", "parts", "ip", "ipv4">>
    /\ info = NilInfo

(***************************************************************************)
(* Vocabulary of the properties on the prefix substring: a base-10         *)
(* integer is an optional sign followed by one or more digits; its value   *)
(* is read as a number of any size.                                        *)
(***************************************************************************)
HasSign(s) == Len(s) > 0 /\ (s[1] = "+" \/ s[1] = "-")

Unsigned(s) == IF HasSign(s) THEN Tail(s) ELSE s

IsInteger(s) == AllDigits(Unsigned(s))

RECURSIVE DropZeros(_)
DropZeros(s) == IF Len(s) > 0 /\ s[1] = "0" THEN DropZeros(Tail(s)) ELSE s

\* the significant digits of the integer s, none for zero
Magnitude(s) == DropZeros(Unsigned(s))

IsNegative(s) == s[1] = "-" /\ Magnitude(s) # <<>>

\* the integer s is below 0 or above 32
OutsidePrefixRange(s) ==
  IF s[1] = "-" THEN Magnitude(s) # <<>>
  ELSE Len(Magnitude(s)) > 2 \/ Dec(Magnitude(s)) > 32

\* the digits of a number in base 10, most significant first, as a number
RECURSIVE NatOfDec(_)
NatOfDec(d) ==
  IF Len(d) = 0 THEN <<>>
  ELSE LET h  == NatOfDec(Take(d, Len(d) - 1))
           h2 == NatAdd(h, h)
           h8 == NatAdd(NatAdd(h2, h2), NatAdd(h2, h2))
       IN  NatAdd(NatAdd(h8, h2), NatSmall(DigitVal(d[Len(d)])))

NatLess(x, y) ==
  \/ Len(x) < Len(y)
  \/ /\ Len(x) = Len(y)
     /\ \E i \in 1..Len(x) : /\ x[i] < y[i]
                             /\ \A j \in (i + 1)..Len(x) : x[j] = y[j]

\* the integer s is a value of a 64-bit int: -2^63 <= s < 2^63
FitsInt64(s) ==
  IF IsNegative(s) THEN ~NatLess(NatPow2(63), NatOfDec(Magnitude(s)))
  ELSE NatLess(NatOfDec(Magnitude(s)), NatPow2(63))

\* the integer s in canonical decimal notation
DecimalText(s) ==
  IF Magnitude(s) = <<>> THEN <<"0">>
  ELSE IF IsNegative(s) THEN <<"-">> \o Magnitude(s)
  ELSE Magnitude(s)

(***************************************************************************)
(* C11, as claimed.  ParseCIDR on an input with a valid IPv4 address part  *)
(* and a numeric prefix outside [0,32] (greater than 32 or negative)       *)
(* fails with the range error 'prefix length must be between 0 and 32'.    *)
(***************************************************************************)
C11_NumericOutsideRange ==
  (Called /\ V4Input /\ IsInteger(PrefixPart(cidr))
          /\ OutsidePrefixRange(PrefixPart(cidr))) =>
    /\ phase = "failed"
    /\ err.msg = ErrRange

(***************************************************************************)
(* C11, amended.  ParseCIDR on an input with a valid IPv4 address part     *)
(* and a numeric prefix outside [0,32] fails: with the range error         *)
(* 'prefix length must be between 0 and 32, got: <value>' when the value   *)
(* is in the range of int, and with 'invalid prefix length: <text>' when   *)
(* it is not.                                                              *)
(***************************************************************************)
C11_OutsideRangeWithinInt ==
  (Called /\ V4Input /\ IsInteger(PrefixPart(cidr))
          /\ OutsidePrefixRange(PrefixPart(cidr))) =>
    /\ phase = "failed"
    /\ info = NilInfo
    /\ FitsInt64(PrefixPart(cidr))
         => err = Error(ErrRange, DecimalText(PrefixPart(cidr)))
    /\ ~FitsInt64(PrefixPart(cidr))
         => err = Error(ErrPrefix, PrefixPart(cidr))

\* the least int as a prefix
C11_Witness ==
  /\ phase = "failed"
  /\ cidr = Slash(DottedText(<<192, 168, 1, 0>>), <<"-", "9", "2", "2", "3", "3", "7", "2", "0", "3", "6", "8", "5", "4", "7", "7", "5", "8", "0", "8">>)
  /\ err = Error(ErrRange, <<"-", "9", "2", "2", "3", "3", "7", "2", "0", "3", "6", "8", "5", "4", "7", "7", "5", "8", "0", "8">>)

(***************************************************************************)
(* C12.  ParseCIDR on an input with a valid IPv4 address part and a        *)
(* prefix substring that is not a base-10 integer fails with the format    *)
(* error 'invalid prefix length: <text>', never with the range error.      *)
(***************************************************************************)
C12_NonNumericPrefix ==
  (Called /\ V4Input /\ ~IsInteger(PrefixPart(cidr))) =>
    /\ phase = "failed"
    /\ err = Error(ErrPrefix, PrefixPart(cidr))
    /\ err.msg # ErrRange
    /\ info = NilInfo

\* digits followed by a letter
C12_Witness ==
  /\ phase = "failed"
  /\ cidr = Slash(DottedText(<<192, 168, 1, 0>>), <<"2", "a">>)
  /\ err = Error(ErrPrefix, <<"2", "a">>)

\* s is four decimal numbers separated by single dots, one of them above 255
OctetAbove255(s) ==
  LET f == Split(s, ".")
  IN  /\ Len(f) = 4
      /\ \A k \in 1..4 : AllDigits(f[k])
      /\ \E k \in 1..4 : Dec(f[k]) > 255

(***************************************************************************)
(* C13, as claimed.  An address octet outside [0,255] is reported with     *)
(* the same error kind as a prefix outside [0,32], the range error.        *)
(***************************************************************************)
C13_OctetRangeError ==
  (Called /\ SlashCount(cidr) = 1 /\ OctetAbove255(AddrPart(cidr))) =>
    /\ phase = "failed"
    /\ err.msg = ErrRange

(***************************************************************************)
(* C13, amended.  An address octet outside [0,255] is reported as a        *)
(* malformed address, with 'invalid IP address format: <address>', and     *)
(* not with the range error of a prefix outside [0,32], whatever the       *)
(* prefix substring is.                                                    *)
(***************************************************************************)
C13_OctetFormatError ==
  (Called /\ SlashCount(cidr) = 1 /\ OctetAbove255(AddrPart(cidr))) =>
    /\ phase = "failed"
    /\ err = Error(ErrIP, AddrPart(cidr))
    /\ err.msg # ErrRange
    /\ info = NilInfo

\* an octet above 255 together with a prefix above 32
C13_Witness ==
  /\ phase = "failed"
  /\ cidr = Slash(<<"1", "9", "2", ".", "1", "6", "8", ".", "1", ".", "2", "5", "6">>, Itoa(33))
  /\ err = Error(ErrIP, <<"1", "9", "2", ".", "1", "6", "8", ".", "1", ".", "2", "5", "6">>)

(***************************************************************************)
(* C14.  Whenever ParseCIDR returns an error, the descriptor it returns    *)
(* is nil, on every failure path; and it returns a descriptor whenever it  *)
(* returns no error.                                                       *)
(***************************************************************************)
C14_NoPartialDescriptor ==
  Called =>
    /\ err # NoErr => (phase = "failed" /\ info = NilInfo)
    /\ err = NoErr => (Returned /\ info # NilInfo /\ ~info.isNil)

\* the failure path after validation: net.ParseCIDR refuses a signed prefix
\* that validateCIDRFormat let through
C14_Witness ==
  /\ phase = "failed"
  /\ cidr = Slash(DottedText(<<192, 168, 1, 0>>), <<"+", "8">>)
  /\ err = Error(ErrParse, cidr)
  /\ examined = <<"empty", "slash", "parts", "ip", "ipv4", "prefix", "range",
                  "net.ParseCIDR">>
  /\ info = NilInfo

\* s is a number 0..32 in canonical decimal notation
CanonicalPrefix(s) ==
  AllDigits(s) /\ Len(s) <= 2 /\ Dec(s) <= 32 /\ Itoa(Dec(s)) = s

(***************************************************************************)
(* C15.  For every input a.b.c.d/p with each octet a canonical decimal in  *)
(* [0,255] and p a canonical decimal in [0,32], ParseCIDR returns a        *)
(* descriptor and no error.                                                *)
(***************************************************************************)
C15_ValidInputNeverFails ==
  (Called /\ V4Input /\ CanonicalPrefix(PrefixPart(cidr))) =>
    /\ Returned
    /\ err = NoErr
    /\ info # NilInfo
    /\ ~info.isNil
    /\ info.PrefixLength = Dec(PrefixPart(cidr))

\* the largest address with the longest prefix
C15_Witness ==
  /\ phase = "parsed"
  /\ cidr = Slash(DottedText(<<255, 255, 255, 255>>), Itoa(32))
  /\ err = NoErr
  /\ info.NetworkID = <<255, 255, 255, 255>>
  /\ info.PrefixLength = 32

(***************************************************************************)
(* Vocabulary of the properties on the address helpers.                    *)
(***************************************************************************)
\* the 32-bit value of an address in its 4-byte or 16-byte form, as a number
AddrValue(ip) == NatOfBytes(To4(ip))

\* a number modulo 2^32
NatMod32(n) == NatNorm(IF Len(n) > 4 THEN Take(n, 4) ELSE n)

MaxAddr == <<255, 255, 255, 255>>

ZeroAddr == <<0, 0, 0, 0>>

(***************************************************************************)
(* C16.  Converting between the text, the 4-octet form and the 32-bit      *)
(* unsigned form of an address is lossless: for every canonical            *)
(* dotted-decimal address s, net.ParseIP(s).String() is s again, and for   *)
(* every 4-byte address x, addToIP(x, 0) = x.                              *)
(***************************************************************************)
C16_LosslessConversion ==
  /\ (helper.fn = "String" /\ CanonicalQuad(helper.text)) =>
        /\ To4(helper.ip) = QuadBytes(helper.text)
        /\ helper.result = helper.text
  /\ (helper.fn = "addToIP" /\ helper.value = U32(0)) =>
        helper.result = helper.ip

\* a text with octets of one, two and three digits
C16_Witness ==
  /\ helper.fn = "String"
  /\ helper.text = DottedText(<<10, 0, 0, 1>>)
  /\ helper.ip = IPv4(<<10, 0, 0, 1>>)
  /\ helper.result = helper.text

(***************************************************************************)
(* C17.  For every address x other than 255.255.255.255, incrementIP(x)    *)
(* is the address whose 32-bit value is x + 1: the octets at 255 at the    *)
(* end of x become 0 and the octet before them is incremented.             *)
(***************************************************************************)
C17_IncrementCarries ==
  (helper.fn = "incrementIP" /\ To4(helper.ip) # MaxAddr) =>
    /\ Len(helper.result) = Len(helper.ip)
    /\ AddrValue(helper.result) = NatAdd(AddrValue(helper.ip), NatSmall(1))
    /\ \E j \in 1..Len(helper.ip) :
         /\ helper.ip[j] # 255
         /\ helper.result[j] = helper.ip[j] + 1
         /\ \A k \in 1..(j - 1) : helper.result[k] = helper.ip[k]
         /\ \A k \in (j + 1)..Len(helper.ip) :
              helper.ip[k] = 255 /\ helper.result[k] = 0

\* a carry through three octets
C17_Witness ==
  /\ helper.fn = "incrementIP"
  /\ helper.ip = <<192, 255, 255, 255>>
  /\ helper.result = <<193, 0, 0, 0>>

(***************************************************************************)
(* C18.  For every address x other than 0.0.0.0, decrementIP(x) is the     *)
(* address whose 32-bit value is x - 1: the octets at 0 at the end of x    *)
(* become 255 and the octet before them is decremented.                    *)
(***************************************************************************)
C18_DecrementBorrows ==
  (helper.fn = "decrementIP" /\ To4(helper.ip) # ZeroAddr) =>
    /\ Len(helper.result) = Len(helper.ip)
    /\ NatAdd(AddrValue(helper.result), NatSmall(1)) = AddrValue(helper.ip)
    /\ \E j \in 1..Len(helper.ip) :
         /\ helper.ip[j] # 0
         /\ helper.result[j] = helper.ip[j] - 1
         /\ \A k \in 1..(j - 1) : helper.result[k] = helper.ip[k]
         /\ \A k \in (j + 1)..Len(helper.ip) :
              helper.ip[k] = 0 /\ helper.result[k] = 255

\* a borrow through three octets
C18_Witness ==
  /\ helper.fn = "decrementIP"
  /\ helper.ip = <<1, 0, 0, 0>>
  /\ helper.result = <<0, 255, 255, 255>>

(***************************************************************************)
(* C19.  For every 4-byte address x and every 32-bit unsigned delta,       *)
(* addToIP(x, delta) is the address whose 32-bit value is                  *)
(* (x + delta) mod 2^32.                                                   *)
(***************************************************************************)
C19_AddToIPWraps ==
  helper.fn = "addToIP" =>
    /\ Len(helper.result) = 4
    /\ NatOfBytes(helper.result)
         = NatMod32(NatAdd(NatOfBytes(helper.ip), NatOfU32(helper.value)))

\* a sum beyond 2^32: 255.255.1.0 + 65536 = 0.0.1.0
C19_Witness ==
  /\ helper.fn = "addToIP"
  /\ helper.ip = <<255, 255, 1, 0>>
  /\ helper.value = [hi |-> 1, lo |-> 0]
  /\ helper.result = <<0, 0, 1, 0>>

(***************************************************************************)
(* C20.  For every network with a prefix length of at most 16,             *)
(* CalculateSubnets returns a list that is not empty and has at most 100   *)
(* subnets.                                                                *)
(***************************************************************************)
C20_LargeNetworksBounded ==
  (phase \in {"enumerated", "panicked"} /\ info.PrefixLength <= 16) =>
    /\ phase = "enumerated"
    /\ Len(subnets) >= 1
    /\ Len(subnets) <= maxSubnetsToDisplay

(***************************************************************************)
(* Properties of the command line.                                         *)
(***************************************************************************)
\* the file name endings
DotHTML == <<".", "h", "t", "m", "l">>

DotHTM == <<".", "h", "t", "m">>

DotTXT == <<".", "t", "x", "t">>

DotTEXT == <<".", "t", "e", "x", "t">>

Validated == run.at # "start"

Rejected == run.at = "rejected"

\* a and b are the same character up to the case of a letter
SameLetter(a, b) ==
  a = b \/ \E k \in 1..26 : {a, b} = {UpperLetters[k], LowerLetters[k]}

\* name ends in ending, letters compared without regard to case
EndsIn(name, ending) ==
  /\ Len(name) >= Len(ending)
  /\ \A i \in 1..Len(ending) : SameLetter(name[Len(name) - Len(ending) + i], ending[i])

NamedHTML(name) == EndsIn(name, DotHTML) \/ EndsIn(name, DotHTM)

HasOutputFile == config.OutputFile # <<>>

\* C21: validateConfig rejects a configuration exactly when it has an output
\* file and either HTML output is requested and the file name does not end,
\* case-insensitively, in .html or .htm (reported as a missing HTML
\* extension), or HTML output is not requested and the name does end in .html
\* or .htm (reported as a missing --html flag); a configuration without an
\* output file is never rejected.
C21_ValidateConfigRejects ==
  Validated =>
    /\ Rejected <=> (HasOutputFile /\ (config.HTMLOutput <=> ~NamedHTML(config.OutputFile)))
    /\ (Rejected /\ config.HTMLOutput) => run.err = Error(ErrHTMLFile, <<>>)
    /\ (Rejected /\ ~config.HTMLOutput) => run.err = Error(ErrHTMLFlag, <<>>)
    /\ ~HasOutputFile => ~Rejected

\* a name in capitals with an HTML ending is rejected without the flag
C21_Witness ==
  /\ Rejected
  /\ ~config.HTMLOutput
  /\ config.OutputFile = <<"o", "u", "t", ".", "H", "T", "M", "L">>
  /\ run.err = Error(ErrHTMLFlag, <<>>)

\* Run got as far as the save operation of handleOutput
ReachedSave ==
  /\ HasOutputFile
  /\ run.at \in {"saved", "failed"}
  /\ run.err.msg \notin {ErrNoCIDR, ErrRunParse}

NamedText(name) == EndsIn(name, DotTXT) \/ EndsIn(name, DotTEXT)

\* C30 (as stated): once validateConfig has accepted a configuration, Run
\* never fails with the extension error of SaveTextToFile or of
\* SaveHTMLToFile.
C30_AcceptedPassesSave ==
  run.at = "failed" => run.err.msg \notin {ErrTextExt, ErrHTMLExt}

\* C30 (amended): when Run reaches the save operation, the HTML extension
\* error never occurs; the text extension error occurs exactly when HTML
\* output is not requested and the accepted file name does not end,
\* case-insensitively, in .txt or .text, and it names the file.
C30_TextSaveNeedsTxt ==
  ReachedSave =>
    /\ run.err.msg # ErrHTMLExt
    /\ run.err.msg = ErrTextExt <=> (~config.HTMLOutput /\ ~NamedText(config.OutputFile))
    /\ run.err.msg = ErrTextExt => run.err.arg = config.OutputFile

\* report.pdf without the HTML flag passes validateConfig and fails in
\* SaveTextToFile
C30_Witness ==
  /\ run.at = "failed"
  /\ ~config.HTMLOutput
  /\ config.OutputFile = <<"o", "u", "t", ".", "p", "d", "f">>
  /\ config.CIDR = <<"1", "9", "2", ".", "1", "6", "8", ".", "1", ".", "0", "/", "2", "4">>
  /\ run.err = Error(ErrTextExt, config.OutputFile)

(***************************************************************************)
(* Properties of the rendered text.                                        *)
(***************************************************************************)
\* the labels and marks of the rendered text
LabelCIDR == <<"C", "I", "D", "R", ":">>

LabelNetworkID == <<"N", "e", "t", "w", "o", "r", "k", " ", "I", "D", ":">>

LabelBroadcast == <<"B", "r", "o", "a", "d", "c", "a", "s", "t", ":">>

LabelSubnetMask == <<"S", "u", "b", "n", "e", "t", " ", "M", "a", "s", "k", ":">>

LabelWildcardMask == <<"W", "i", "l", "d", "c", "a", "r", "d", " ", "M", "a", "s", "k", ":">>

LabelHostAddress == <<"H", "o", "s", "t", " ", "A", "d", "d", "r", "e", "s", "s", ":">>

LabelFirstAddress == <<"F", "i", "r", "s", "t", " ", "A", "d", "d", "r", "e", "s", "s", ":">>

LabelSecondAddress == <<"S", "e", "c", "o", "n", "d", " ", "A", "d", "d", "r", "e", "s", "s", ":">>

LabelFirstUsable == <<"F", "i", "r", "s", "t", " ", "U", "s", "a", "b", "l", "e", ":">>

LabelLastUsable == <<"L", "a", "s", "t", " ", "U", "s", "a", "b", "l", "e", ":">>

LabelTotalHosts == <<"T", "o", "t", "a", "l", " ", "H", "o", "s", "t", "s", ":">>

SingleHost == <<" ", "(", "s", "i", "n", "g", "l", "e", " ", "h", "o", "s", "t", ")">>

PointToPoint == <<" ", "(", "p", "o", "i", "n", "t", "-", "t", "o", "-", "p", "o", "i", "n", "t", ")">>

Formatted == output # <<>>

StartsWith(s, p) == Len(s) >= Len(p) /\ Take(s, Len(p)) = p

\* the positions of the text at which a line that carries the label begins
LabelLines(text, label) ==
  {p \in 1..Len(text) :
     /\ p = 1 \/ text[p - 1] = "\n"
     /\ p + Len(label) + 1 <= Len(text)
     /\ SubSeq(text, p, p + Len(label) + 1) = <<" ", " ">> \o label}

HasLabel(text, label) == LabelLines(text, label) # {}

\* the position of the newline that ends the line beginning at p
LineEnd(text, p) ==
  CHOOSE e \in p..Len(text) :
    text[e] = "\n" /\ \A j \in p..(e - 1) : text[j] # "\n"

\* the line beginning at p from the end of its label column on
ValueAt(text, p) == SubSeq(text, p + 2 + labelWidth + 1, LineEnd(text, p) - 1)

\* what follows the label column on the line of a label
ValueOf(text, label) == ValueAt(text, CHOOSE p \in LabelLines(text, label) : TRUE)

HostLabels ==
  {LabelHostAddress, LabelFirstAddress, LabelSecondAddress, LabelFirstUsable, LabelLastUsable}

ShowsOnly(text, labels) ==
  \A l \in HostLabels : HasLabel(text, l) <=> l \in labels

\* a decimal numeral without sign and without leading zeros
PlainNumeral(s) == AllDigits(s) /\ (Len(s) > 1 => s[1] # "0")

\* the numeral s of at most 10 digits denotes the 32-bit number x: with h its
\* digits before the last four and l its last four, h * 10^4 + l equals
\* x.hi * 2^16 + x.lo, both sides compared as quotient and remainder by 16
DenotesParts(h, l, x) ==
  /\ h * 625 + (l \div 16) = x.hi * 4096 + (x.lo \div 16)
  /\ l % 16 = x.lo % 16

Denotes(s, x) ==
  /\ Len(s) <= 10
  /\ IF Len(s) > 4 THEN DenotesParts(Dec(Take(s, Len(s) - 4)), Dec(Drop(s, Len(s) - 4)), x)
     ELSE DenotesParts(0, Dec(s), x)

RendersAsCalculated(text, i) ==
  /\ i.PrefixLength = 32 =>
       /\ ShowsOnly(text, {LabelHostAddress})
       /\ ValueOf(text, LabelHostAddress) = IPString(i.FirstUsableIP) \o SingleHost
  /\ i.PrefixLength = 31 =>
       /\ ShowsOnly(text, {LabelFirstAddress, LabelSecondAddress})
       /\ ValueOf(text, LabelFirstAddress) = IPString(i.FirstUsableIP) \o PointToPoint
       /\ ValueOf(text, LabelSecondAddress) = IPString(i.LastUsableIP) \o PointToPoint
  /\ i.PrefixLength \in 0..30 =>
       /\ ShowsOnly(text, {LabelFirstUsable, LabelLastUsable})
       /\ ValueOf(text, LabelFirstUsable) = IPString(i.FirstUsableIP)
       /\ ValueOf(text, LabelLastUsable) = IPString(i.LastUsableIP)
  /\ Cardinality(LabelLines(text, LabelTotalHosts)) = 1
  /\ \A shown \in {ValueOf(text, LabelTotalHosts)} :
       PlainNumeral(shown) /\ Denotes(shown, i.TotalHosts)

\* C22: the rendered text has, for prefix length 32, one 'Host Address' line
\* marked '(single host)'; for 31, a 'First Address' and a 'Second Address'
\* line marked '(point-to-point)'; for 0..30, a 'First Usable' and a 'Last
\* Usable' line; each shows the descriptor's first or last usable address
\* and no label of another branch appears; the one 'Total Hosts' line shows
\* the descriptor's TotalHosts in decimal.
C22_RendererBranches ==
  Formatted => RendersAsCalculated(output, info)

\* a rendered /31 with its two point-to-point lines
C22_Witness ==
  /\ Formatted
  /\ info.PrefixLength = 31
  /\ HasLabel(output, LabelSecondAddress)

(***************************************************************************)
(* Properties of the helper calls made inside ParseCIDR and                *)
(* CalculateSubnets.                                                       *)
(***************************************************************************)
AllBytes(ip, b) == \A k \in 1..Len(ip) : ip[k] = b

\* C23: when ParseCIDR returns a descriptor, it has called incrementIP and
\* decrementIP only if the prefix length is in 0..30, and then exactly once
\* each, incrementIP on the network id and decrementIP on the broadcast
\* address; incrementIP was never given an address of all-255 bytes
\* (255.255.255.255) and decrementIP never one of all-0 bytes (0.0.0.0).
C23_RangeHelpersNeverWrap ==
  phase = "parsed" =>
    /\ \A k \in 1..Len(calls) :
         /\ calls[k].fn = "incrementIP" => ~AllBytes(calls[k].ip, 255)
         /\ calls[k].fn = "decrementIP" => ~AllBytes(calls[k].ip, 0)
    /\ info.PrefixLength \in {31, 32} => calls = <<>>
    /\ info.PrefixLength \in 0..30 =>
         /\ Len(calls) = 2
         /\ calls[1].fn = "incrementIP" /\ calls[1].ip = info.NetworkID
         /\ calls[2].fn = "decrementIP" /\ calls[2].ip = info.BroadcastAddr

\* 0.0.0.0/0: incrementIP on 0.0.0.0 and decrementIP on 255.255.255.255
C23_Witness ==
  /\ phase = "parsed"
  /\ info.PrefixLength = 0
  /\ Len(calls) = 2
  /\ calls[1].ip = ZeroAddr
  /\ calls[2].ip = MaxAddr

Enumerating == phase \in {"enumerated", "panicked"}

\* the sum of an addToIP call, as a number
SumOf(c) == NatAdd(NatOfBytes(c.ip), NatOfU32(c.value))

\* the sum of an addToIP call does not fit 32 bits
Wraps(c) == ~NatLess(SumOf(c), NatPow2(32))

\* C24 (as stated): no addToIP call of CalculateSubnets has a sum beyond
\* 2^32 - 1, the call after the last subnet included.
C24_NoAddToIPWraps ==
  Enumerating => \A k \in 1..Len(calls) : ~Wraps(calls[k])

NoWrapBeforeLast(cs) == \A k \in 1..(Len(cs) - 1) : ~Wraps(cs[k])

LastWrapsAtTop(cs, i) ==
  Len(cs) > 0 => (Wraps(cs[Len(cs)]) <=> i.BroadcastAddr = MaxAddr)

\* C24 (amended): every addToIP call of CalculateSubnets whose result becomes
\* the network id of a later subnet has a sum of at most 2^32 - 1; the last
\* call, whose result is discarded, wraps modulo 2^32 exactly when the
\* parent's broadcast address is 255.255.255.255.
C24_OnlyDiscardedSumWraps ==
  Enumerating => NoWrapBeforeLast(calls) /\ LastWrapsAtTop(calls, info)

\* the upper half of the address space: 128.0.0.0 + 2^31 after the last subnet
C24_Witness ==
  /\ phase = "enumerated"
  /\ info.BroadcastAddr = MaxAddr
  /\ Len(calls) = 2
  /\ ~Wraps(calls[1])
  /\ Wraps(calls[2])

\* C25: whenever CalculateSubnets gets a descriptor of prefix length 0..31,
\* the numSubnets it computes is exactly 2 and the branch that caps it at
\* 100 is not taken; a completed enumeration has 2 subnets.
C25_AlwaysTwoSubnets ==
  (Enumerating /\ info.PrefixLength \in 0..31) =>
    /\ enumeration.numSubnets = U32(2)
    /\ ~enumeration.capped
    /\ phase = "enumerated" => Len(subnets) = 2

\* a /8, the size the cap was written for
C25_Witness ==
  /\ phase = "enumerated"
  /\ info.PrefixLength = 8
  /\ enumeration = [numSubnets |-> U32(2), capped |-> FALSE]
  /\ Len(subnets) = 2

(***************************************************************************)
(* Properties of the host count arithmetic.                                *)
(***************************************************************************)
\* the uint32 intermediate is not the power of two it stands for
Overflowed == NatOfU32(intermediate.value) # NatPow2(32 - info.PrefixLength)

\* C26 (as stated): for prefix length 0 and for prefix length 1 the uint32
\* intermediate 1 << (32 - prefix) of the host count is not 2^(32 - prefix):
\* it has overflowed before 2 is subtracted.
C26_OverflowAtZeroAndOne ==
  (phase = "parsed" /\ info.PrefixLength \in {0, 1}) =>
    intermediate.computed /\ Overflowed

\* C26 (amended): for prefix lengths 0..30 the uint32 intermediate
\* 1 << (32 - prefix) differs from 2^(32 - prefix) exactly for prefix length
\* 0, where it is 0; for prefix length 1 it is 2^31, which fits.  TotalHosts
\* is 2^(32 - prefix) - 2 for every prefix length 0..30, because the
\* subtraction at prefix length 0 wraps back.
C26_OverflowOnlyAtZero ==
  (phase = "parsed" /\ info.PrefixLength \in 0..30) =>
    /\ intermediate.computed
    /\ Overflowed <=> info.PrefixLength = 0
    /\ info.PrefixLength = 0 => intermediate.value = U32(0)
    /\ NatAdd(NatOfU32(info.TotalHosts), NatSmall(2)) = NatPow2(32 - info.PrefixLength)

\* a /1: the intermediate is 2^31, not overflowed
C26_Witness ==
  /\ phase = "parsed"
  /\ info.PrefixLength = 1
  /\ intermediate = [computed |-> TRUE, value |-> [hi |-> 32768, lo |-> 0]]

(***************************************************************************)
(* Properties of the memory.                                               *)
(***************************************************************************)
\* every recorded helper call left the bytes of its argument as they were
ArgumentsKept(cs) == \A k \in 1..Len(cs) : cs[k].after = cs[k].ip

\* C27: incrementIP and decrementIP, as ParseCIDR calls them, and addToIP, as
\* CalculateSubnets calls it, leave the bytes of the address they are given
\* unchanged, and CalculateSubnets leaves the descriptor it is given
\* unchanged, whether it returns or panics.
C27_ArgumentsUnchanged ==
  [][ /\ (phase = "idle" /\ phase' = "parsed") => ArgumentsKept(calls')
      /\ (phase = "parsed" /\ phase' # "parsed") =>
           (ArgumentsKept(calls') /\ info' = info) ]_vars

\* an enumeration whose addToIP calls returned new addresses and kept theirs
C27_Witness ==
  /\ phase = "enumerated"
  /\ Len(calls) = 2
  /\ calls[1].fn = "addToIP"
  /\ calls[1].after = calls[1].ip
  /\ subnets[2].NetworkID # calls[1].ip
  /\ info.NetworkID = calls[1].ip

(***************************************************************************)
(* Properties of the returned descriptor as a whole.                       *)
(***************************************************************************)
NatLeq(a, b) == a = b \/ NatLess(a, b)

\* the four addresses of the descriptor i in ascending order
RangeOrdered(i) ==
  /\ NatLeq(NatOfBytes(i.NetworkID), NatOfBytes(i.FirstUsableIP))
  /\ NatLeq(NatOfBytes(i.FirstUsableIP), NatOfBytes(i.LastUsableIP))
  /\ NatLeq(NatOfBytes(i.LastUsableIP), NatOfBytes(i.BroadcastAddr))

\* TotalHosts is the number of addresses from FirstUsableIP to LastUsableIP
RangeCounted(i) ==
  NatAdd(NatOfBytes(i.FirstUsableIP), NatOfU32(i.TotalHosts))
    = NatAdd(NatOfBytes(i.LastUsableIP), NatSmall(1))

\* C28: in every descriptor ParseCIDR returns, NetworkID <= FirstUsableIP <=
\* LastUsableIP <= BroadcastAddr as numbers, and TotalHosts =
\* LastUsableIP - FirstUsableIP + 1, for every prefix length 0..32.
C28_RangeWithinNetwork ==
  phase = "parsed" => RangeOrdered(info) /\ RangeCounted(info)

FourBytes(i) ==
  /\ Len(i.NetworkID) = 4
  /\ Len(i.BroadcastAddr) = 4
  /\ Len(i.SubnetMask) = 4
  /\ Len(i.WildcardMask) = 4

\* C29: every descriptor ParseCIDR returns has a NetworkID, a BroadcastAddr,
\* a SubnetMask and a WildcardMask of exactly 4 bytes, and CalculateSubnets
\* on it never ends in an index out of range.
C29_FourByteFields ==
  /\ Returned => FourBytes(info)
  /\ phase # "panicked"

====
